---------------------------- MODULE Spec2Model ----------------------------
(***************************************************************************)
(* A model of the evaluation core of aegis-slo: the burn-policy engine     *)
(* (internal/policy), the Prometheus adapter (internal/adapter/prometheus),*)
(* the decision cache and the per-SLO scheduler (internal/scheduler), with *)
(* the part of the HTTP layer that serves gate decisions (internal/api).   *)
(*                                                                         *)
(* Floating-point quantities (burn rates, thresholds) are exact rationals  *)
(* [n |-> numerator, d |-> denominator] with d > 0, compared by cross      *)
(* multiplication.                                                         *)
(***************************************************************************)
EXTENDS Integers, Sequences, FiniteSets, TLC

VARIABLES
    \* ---- policy engine (a pure function: inputs and its result) ----
    polRules,      \* sloSpec.Spec.BurnPolicy.Rules handed to Engine.Evaluate
    polEval,       \* the EvaluationResult handed to Engine.Evaluate
    polResult      \* the GateResult returned, or NoResult before the call

VARIABLES
    \* ---- Prometheus adapter ----
    semCur,        \* Adapter.sem: the slots of the weighted semaphore in use
    adCall         \* per calling task: where its QueryWindow call stands

VARIABLES
    \* ---- StateCache and its readers ----
    cacheStates,   \* StateCache.states: the address of the map object in use
    maps,          \* the live map objects: address -> (SLO id -> entry address)
    heap,          \* the live *EvaluationState objects: address -> fields
    snap,          \* the map a GetAll caller holds (NoAddr: none)
    snapSeen,      \* what the cache held, by value, when that GetAll returned
    got            \* what the last Get returned to a reader

VARIABLES
    \* ---- Scheduler, its goroutines, and the callers of its methods ----
    clock,         \* what time.Now() returns
    backend,       \* the state of the metrics backend the evaluator queries
    slos,          \* Scheduler.slos: the admitted SLO ids, in file order
    running,       \* Scheduler.running
    cancel,        \* Scheduler.cancel: the context it cancels (0: nil)
    cancelled,     \* the contexts that are cancelled
    wg,            \* Scheduler.wg: the counter of the WaitGroup
    auditOn,       \* Scheduler.audit # nil
    auditLog,      \* the calls the audit sink has received
    workers,       \* the goroutines that run evaluateOnce: <<ctx, i>> is the
                   \* i-th evaluateLoop of the Start that made context ctx,
                   \* <<0, 1>> the HTTP handler of gate-decision requests
    starter,       \* the thread that calls Start
    stopper,       \* the thread that calls Stop
    stopped,       \* the contexts whose Stop call has returned
    loadRet,       \* what the last LoadSLOs call returned
    sinkOk         \* the audit sink answers its calls without error

VARIABLES
    \* ---- the pure functions checked on drawn inputs ----
    fnArg,         \* the arguments of the call
    fnRes          \* what the call returned, NoCall before it

fnVars == <<fnArg, fnRes>>
polVars == <<polRules, polEval, polResult>>
adVars == <<semCur, adCall>>
cacheVars == <<cacheStates, maps, heap, snap, snapSeen, got>>
schedVars == <<clock, backend, slos, running, cancel, cancelled, wg, auditOn,
               auditLog, workers, starter, stopper, stopped, loadRet, sinkOk>>

vars == <<polRules, polEval, polResult, semCur, adCall,
          cacheStates, maps, heap, snap, snapSeen, got,
          clock, backend, slos, running, cancel, cancelled, wg, auditOn,
          auditLog, workers, starter, stopper, stopped, loadRet, sinkOk,
          fnArg, fnRes>>

\* what the actions of one component leave alone
PolicyFrame == UNCHANGED <<adVars, cacheVars, schedVars, fnVars>>
AdapterFrame == UNCHANGED <<polVars, cacheVars, schedVars, fnVars>>
CacheFrame == UNCHANGED <<polVars, adVars, schedVars, fnVars>>
\* the scheduler's actions but LoadSLOs, and the audit sink's
SchedFrame == UNCHANGED <<polVars, adVars, loadRet, sinkOk, fnVars>>
\* the calls of the pure functions
FnFrame == UNCHANGED <<polVars, adVars, cacheVars, schedVars>>

NoCall == [called |-> FALSE]

\* no pure function is under check
FnIdle ==
    /\ fnArg = NoCall
    /\ fnRes = NoCall

----------------------------------------------------------------------------
(* Bounds of the model *)

\* longest burnPolicy.rules list drawn for the policy engine
MaxRules == 2
\* burn rates drawn for the policy engine are 0 .. MaxBurn
MaxBurn == 2

\* tasks that call Adapter.QueryWindow concurrently
NumCallers == 3
\* Config.MaxConcurrency of the adapter under check (DefaultConfig: 10)
MaxConcurrency == 2
\* Config.RetryCount of the adapter under check (DefaultConfig: 1)
RetryCount == 1

\* wall-clock readings (time.Now) the model hands out: 0 .. MaxClock - 1
MaxClock == 2

\* successful Start calls in one behaviour (each makes a new context)
MaxStarts == 1

\* successful Start calls where the scheduler is stopped and started again
MaxRestarts == 2

\* the largest good or total count a window's query returns
MaxCount == 2

\* the largest good or total handed to ComputeSLI
MaxMetric == 7

\* the longest string of the alphabet handed to ParseDuration
MaxChars == 3

\* the most files of a drawn SLO directory
MaxFiles == 3

----------------------------------------------------------------------------
(* Rationals *)

RECURSIVE GCD(_, _)
GCD(a, b) == IF b = 0 THEN a ELSE GCD(b, a % b)

\* n/d in lowest terms (d > 0)
Rat(n, d) == LET g == GCD(n, d) IN [n |-> n \div g, d |-> d \div g]

\* a >= b on float64 values (Go's >=)
RatGE(a, b) == a.n * b.d >= b.n * a.d

\* a - b and a / b on float64 values (b > 0 in a / b)
RatSub(a, b) == Rat(a.n * b.d - b.n * a.d, a.d * b.d)

RatDiv(a, b) == Rat(a.n * b.d, a.d * b.n)

\* math.Max
RatMax(a, b) == IF RatGE(a, b) THEN a ELSE b

----------------------------------------------------------------------------
(* internal/policy: decisions, rule results, the engine *)

DecisionALLOW == "ALLOW"
DecisionWARN == "WARN"
DecisionBLOCK == "BLOCK"

Decisions == {DecisionALLOW, DecisionWARN, DecisionBLOCK}

NoResult == [Decision |-> "none"]

\* the labels of the windows an SLO may name
Windows == {"5m", "1h"}

\* the reasons the engine appends, in evaluation order
ReasonStale == [kind |-> "data is stale", rule |-> ""]
ReasonNoTraffic == [kind |-> "insufficient data (zero traffic)", rule |-> ""]
ReasonPassed == [kind |-> "all burn rate checks passed", rule |-> ""]
ReasonMissing(name) == [kind |-> "missing window data", rule |-> name]
ReasonTriggered(name) == [kind |-> "triggered", rule |-> name]
ReasonNone == [kind |-> "", rule |-> ""]

\* the comparison of evaluateRule weakened to a strict one
evaluateRuleStrict(rule, evalResult) ==
    LET base == [RuleName |-> rule.Name, Action |-> rule.Action]
        shortExists == rule.ShortWindow \in DOMAIN evalResult.BurnRates
        longExists == rule.LongWindow \in DOMAIN evalResult.BurnRates
    IN  IF ~shortExists \/ ~longExists
        THEN base @@ [Triggered |-> FALSE, Reason |-> ReasonMissing(rule.Name)]
        ELSE IF /\ ~RatGE(rule.Threshold, evalResult.BurnRates[rule.ShortWindow].BurnRate)
                /\ ~RatGE(rule.Threshold, evalResult.BurnRates[rule.LongWindow].BurnRate)
             THEN base @@ [Triggered |-> TRUE, Reason |-> ReasonTriggered(rule.Name)]
             ELSE base @@ [Triggered |-> FALSE, Reason |-> ReasonNone]

\* Engine.evaluateRule: both windows present and both burn rates >= threshold
evaluateRule(rule, evalResult) ==
    LET base == [RuleName |-> rule.Name, Action |-> rule.Action]
        shortExists == rule.ShortWindow \in DOMAIN evalResult.BurnRates
        longExists == rule.LongWindow \in DOMAIN evalResult.BurnRates
    IN  IF ~shortExists \/ ~longExists
        THEN base @@ [Triggered |-> FALSE, Reason |-> ReasonMissing(rule.Name)]
        ELSE IF /\ RatGE(evalResult.BurnRates[rule.ShortWindow].BurnRate, rule.Threshold)
                /\ RatGE(evalResult.BurnRates[rule.LongWindow].BurnRate, rule.Threshold)
             THEN base @@ [Triggered |-> TRUE, Reason |-> ReasonTriggered(rule.Name)]
             ELSE base @@ [Triggered |-> FALSE, Reason |-> ReasonNone]

\* one pass of the rule loop of Engine.Evaluate with the BLOCK guard of the
\* WARN branch dropped
ApplyRuleNoGuard(result, rule, evalResult) ==
    LET ruleResult == evaluateRule(rule, evalResult)
        withRule == [result EXCEPT !.RuleResults = Append(@, ruleResult)]
    IN  IF ~ruleResult.Triggered
        THEN withRule
        ELSE [withRule EXCEPT
                !.Decision = IF ruleResult.Action \in {DecisionBLOCK, DecisionWARN}
                             THEN ruleResult.Action
                             ELSE @,
                !.Reasons = Append(@, ruleResult.Reason)]

\* one pass of the rule loop of Engine.Evaluate in which the action of a
\* triggered rule becomes the decision
ApplyRuleActionWins(result, rule, evalResult) ==
    LET ruleResult == evaluateRule(rule, evalResult)
        withRule == [result EXCEPT !.RuleResults = Append(@, ruleResult)]
    IN  IF ~ruleResult.Triggered
        THEN withRule
        ELSE [withRule EXCEPT
                !.Decision = ruleResult.Action,
                !.Reasons = Append(@, ruleResult.Reason)]

\* one pass of the rule loop of Engine.Evaluate
ApplyRule(result, rule, evalResult) ==
    LET ruleResult == evaluateRule(rule, evalResult)
        withRule == [result EXCEPT !.RuleResults = Append(@, ruleResult)]
    IN  IF ~ruleResult.Triggered
        THEN withRule
        ELSE [withRule EXCEPT
                !.Decision = IF ruleResult.Action = DecisionBLOCK
                             THEN DecisionBLOCK
                             ELSE IF ruleResult.Action = DecisionWARN
                                     /\ @ # DecisionBLOCK
                                  THEN DecisionWARN
                                  ELSE @,
                !.Reasons = Append(@, ruleResult.Reason)]

RECURSIVE ApplyRules(_, _, _, _)
ApplyRules(result, rules, i, evalResult) ==
    IF i > Len(rules)
    THEN result
    ELSE ApplyRules(ApplyRule(result, rules[i], evalResult), rules, i + 1, evalResult)

\* Engine.Evaluate: gating modifiers, then the rules in declaration order
PolicyEvaluate(rules, evalResult) ==
    LET r0 == [Decision |-> DecisionALLOW,
               RuleResults |-> <<>>,
               Reasons |-> <<>>,
               IsStale |-> evalResult.IsStale,
               HasNoTraffic |-> evalResult.InsufficientData]
        r1 == IF evalResult.IsStale
              THEN [r0 EXCEPT !.Decision = DecisionWARN,
                              !.Reasons = Append(@, ReasonStale)]
              ELSE r0
        r2 == IF evalResult.InsufficientData
              THEN [r1 EXCEPT !.Decision = DecisionWARN,
                              !.Reasons = Append(@, ReasonNoTraffic)]
              ELSE r1
        r3 == ApplyRules(r2, rules, 1, evalResult)
    IN  IF r3.Decision = DecisionALLOW /\ Len(r3.Reasons) = 0
        THEN [r3 EXCEPT !.Reasons = Append(@, ReasonPassed)]
        ELSE r3

----------------------------------------------------------------------------
(* The policy engine applied to drawn inputs *)

RuleNames == {"fast-burn"}

Thresholds == {Rat(1, 1), Rat(2, 1)}

BurnValues == {Rat(k, 1) : k \in 0 .. MaxBurn}

BurnRuleSet ==
    [Name : RuleNames, ShortWindow : Windows, LongWindow : Windows,
     Threshold : Thresholds, Action : Decisions]

RuleLists == UNION {[1 .. k -> BurnRuleSet] : k \in 0 .. MaxRules}

\* eval.BurnRateResult
BurnRateResult(window, burnRate, sli, errorRate) ==
    [Window |-> window, BurnRate |-> burnRate, SLI |-> sli,
     ErrorRate |-> errorRate]

BurnRateMaps ==
    UNION {{[w \in ws |-> BurnRateResult(w, f[w], Rat(1, 1), Rat(0, 1))] :
                f \in [ws -> BurnValues]} : ws \in SUBSET Windows}

PolicyInit ==
    /\ polRules \in RuleLists
    /\ polEval \in [IsStale : BOOLEAN, InsufficientData : BOOLEAN,
                    BurnRates : BurnRateMaps]
    /\ polResult = NoResult

\* a caller hands the drawn inputs to Engine.Evaluate
CallPolicyEvaluate ==
    /\ polResult = NoResult
    /\ polResult' = PolicyEvaluate(polRules, polEval)
    /\ UNCHANGED <<polRules, polEval>>
    /\ PolicyFrame

PolicyNext == CallPolicyEvaluate

PolicyIdle ==
    /\ polRules = <<>>
    /\ polEval = [IsStale |-> FALSE, InsufficientData |-> FALSE,
                  BurnRates |-> <<>>]
    /\ polResult = NoResult

----------------------------------------------------------------------------
(* internal/adapter/prometheus: QueryWindow under the semaphore *)

Callers == 1 .. NumCallers

\* what one executeQuery attempt can come to
AttemptFailures == {"transport", "http_status", "bad_body", "status_not_success"}
AttemptOutcomes == {"success"} \cup AttemptFailures

IdleCall ==
    [pc |-> "idle", attempt |-> 0, lastErr |-> "none", ret |-> "none",
     made |-> 0, failed |-> 0]

\* the semaphore handing out one slot too many
SemHasRoomOffByOne(cur) == cur <= MaxConcurrency

\* semaphore.Weighted.Acquire(ctx, 1) succeeds while size - cur >= 1
SemHasRoom(cur) == cur + 1 <= MaxConcurrency

\* the retry loop stopping one attempt early
RetryLoopRunsShort(attempt) == attempt < RetryCount

\* for attempt := 0; attempt <= a.config.RetryCount; attempt++
RetryLoopRuns(attempt) == attempt <= RetryCount

\* the number of outbound requests in flight
InFlight == Cardinality({c \in Callers : adCall[c].pc = "inflight"})

\* QueryWindow is entered: the query is substituted, the deadline context made
QueryWindowEnter(c) ==
    /\ adCall[c].pc = "idle"
    /\ adCall' = [adCall EXCEPT ![c].pc = "acquire"]
    /\ UNCHANGED semCur
    /\ AdapterFrame

\* a.sem.Acquire(ctx, 1) returns nil
SemAcquire(c) ==
    /\ adCall[c].pc = "acquire"
    /\ SemHasRoom(semCur)
    /\ semCur' = semCur + 1
    /\ adCall' = [adCall EXCEPT ![c].pc = "loop"]
    /\ AdapterFrame

\* a.sem.Acquire(ctx, 1) returns the deadline error: QueryWindow returns
\* before the deferred Release is registered
SemAcquireTimeout(c) ==
    /\ adCall[c].pc = "acquire"
    /\ adCall' = [adCall EXCEPT ![c].pc = "returned", ![c].ret = "acquire_err"]
    /\ UNCHANGED semCur
    /\ AdapterFrame

\* the loop body up to the dispatch of the request by executeQuery
\* (after the retry delay when attempt > 0)
ExecuteQuery(c) ==
    /\ adCall[c].pc = "loop"
    /\ RetryLoopRuns(adCall[c].attempt)
    /\ adCall' = [adCall EXCEPT ![c].pc = "inflight", ![c].made = @ + 1]
    /\ UNCHANGED semCur
    /\ AdapterFrame

\* executeQuery returns: on success QueryWindow returns the metrics and the
\* deferred Release runs; on failure lastErr is kept and the loop goes on
QueryAttemptReturns(c) ==
    /\ adCall[c].pc = "inflight"
    /\ \E outcome \in AttemptOutcomes :
          IF outcome = "success"
          THEN /\ adCall' = [adCall EXCEPT ![c].pc = "returned", ![c].ret = "ok"]
               /\ semCur' = semCur - 1
          ELSE /\ adCall' = [adCall EXCEPT ![c].pc = "loop",
                                           ![c].lastErr = outcome,
                                           ![c].attempt = @ + 1,
                                           ![c].failed = @ + 1]
               /\ UNCHANGED semCur
    /\ AdapterFrame

\* QueryWindow returning after the last attempt without the deferred Release
QueryWindowFailsKeepsSlot(c) ==
    /\ adCall[c].pc = "loop"
    /\ ~RetryLoopRuns(adCall[c].attempt)
    /\ adCall' = [adCall EXCEPT ![c].pc = "returned", ![c].ret = "err"]
    /\ UNCHANGED semCur
    /\ AdapterFrame

\* the loop is over: QueryWindow returns "query failed after N attempts" and
\* the deferred Release runs
QueryWindowFails(c) ==
    /\ adCall[c].pc = "loop"
    /\ ~RetryLoopRuns(adCall[c].attempt)
    /\ adCall' = [adCall EXCEPT ![c].pc = "returned", ![c].ret = "err"]
    /\ semCur' = semCur - 1
    /\ AdapterFrame

\* the caller takes the result; it may call again
QueryWindowDone(c) ==
    /\ adCall[c].pc = "returned"
    /\ adCall' = [adCall EXCEPT ![c] = IdleCall]
    /\ UNCHANGED semCur
    /\ AdapterFrame

AdapterInit ==
    /\ semCur = 0
    /\ adCall = [c \in Callers |-> IdleCall]

AdapterNext ==
    \E c \in Callers :
        \/ QueryWindowEnter(c)
        \/ SemAcquire(c)
        \/ SemAcquireTimeout(c)
        \/ ExecuteQuery(c)
        \/ QueryAttemptReturns(c)
        \/ QueryWindowFails(c)
        \/ QueryWindowDone(c)

----------------------------------------------------------------------------
(* internal/slo: the SLO documents the model loads *)

\* Integers of 64 and more bits are vectors of 16-bit limbs, the least
\* significant first: an int64 has WordLimbs of them (two's complement), and
\* the exact value of a product has WideLimbs.
LimbBase == 65536
WordLimbs == 4
WideLimbs == 8

\* the number k < LimbBase in n limbs
Limbs(k, n) == [i \in 1 .. n |-> IF i = 1 THEN k ELSE 0]

\* x * k + carry in Len(x) limbs from limb i on; what exceeds them is lost
RECURSIVE MulAddLimbs(_, _, _, _)
MulAddLimbs(x, k, carry, i) ==
    IF i > Len(x)
    THEN <<>>
    ELSE LET t == x[i] * k + carry
         IN  <<t % LimbBase>> \o MulAddLimbs(x, k, t \div LimbBase, i + 1)

\* x times each factor of ks in turn, in Len(x) limbs
RECURSIVE MulAll(_, _)
MulAll(x, ks) ==
    IF ks = <<>> THEN x ELSE MulAll(MulAddLimbs(x, Head(ks), 0, 1), Tail(ks))

\* the limbs of x \div k below limb i, given the remainder of the limbs above
RECURSIVE DivLimbs(_, _, _, _)
DivLimbs(x, k, i, rem) ==
    IF i = 0
    THEN <<>>
    ELSE LET t == rem * LimbBase + x[i]
         IN  DivLimbs(x, k, i - 1, t % k) \o <<t \div k>>

\* x as a non-negative int64: the upper limbs and the sign bit are clear
FitsInt64(x) ==
    /\ \A i \in WordLimbs + 1 .. Len(x) : x[i] = 0
    /\ x[WordLimbs] < LimbBase \div 2

Digits == {"0", "1", "2", "3", "4", "5", "6", "7", "8", "9"}

DigitValue(c) ==
    CASE c = "0" -> 0 [] c = "1" -> 1 [] c = "2" -> 2 [] c = "3" -> 3
      [] c = "4" -> 4 [] c = "5" -> 5 [] c = "6" -> 6 [] c = "7" -> 7
      [] c = "8" -> 8 [] c = "9" -> 9

DurationUnits == {"s", "m", "h", "d"}

\* the decimal number digits spells, in n limbs
RECURSIVE DecimalValue(_, _)
DecimalValue(digits, n) ==
    IF digits = <<>>
    THEN Limbs(0, n)
    ELSE MulAddLimbs(DecimalValue(SubSeq(digits, 1, Len(digits) - 1), n),
                     10, DigitValue(digits[Len(digits)]), 1)

\* durationPattern.FindStringSubmatch on the characters of a string:
\* ^(\d+)(s|m|h|d)$ matches the whole text, \d matches an ASCII digit
FindStringSubmatch(chars) ==
    IF /\ Len(chars) >= 2
       /\ \A i \in 1 .. Len(chars) - 1 : chars[i] \in Digits
       /\ chars[Len(chars)] \in DurationUnits
    THEN [nil |-> FALSE, value |-> SubSeq(chars, 1, Len(chars) - 1),
          unit |-> chars[Len(chars)]]
    ELSE [nil |-> TRUE]

\* strconv.ParseInt(digits, 10, 64): a range error above 2^63 - 1
ParseInt(digits) ==
    LET exact == DecimalValue(digits, WideLimbs)
    IN  IF FitsInt64(exact)
        THEN [err |-> FALSE, value |-> SubSeq(exact, 1, WordLimbs)]
        ELSE [err |-> TRUE]

\* time.Second, time.Minute, time.Hour and 24 * time.Hour in nanoseconds, as
\* the factors the int64 value is multiplied by
UnitFactors(unit) ==
    CASE unit = "s" -> <<1000, 1000, 1000>>
      [] unit = "m" -> <<60, 1000, 1000, 1000>>
      [] unit = "h" -> <<3600, 1000, 1000, 1000>>
      [] unit = "d" -> <<24, 3600, 1000, 1000, 1000>>

\* ParseDuration on the characters of a string: the time.Duration returned
\* is an int64 of nanoseconds, and its multiplication wraps
ParseDurationChars(chars) ==
    LET matches == FindStringSubmatch(chars)
        parsed == ParseInt(matches.value)
    IN  IF matches.nil
        THEN [err |-> TRUE]
        ELSE IF parsed.err
             THEN [err |-> TRUE]
             ELSE [err |-> FALSE,
                   duration |-> MulAll(parsed.value, UnitFactors(matches.unit))]

\* the characters of the duration strings the SLO documents use
Chars(str) ==
    CASE str = "5m" -> <<"5", "m">>
      [] str = "1h" -> <<"1", "h">>
      [] str = "30s" -> <<"3", "0", "s">>
      [] str = "60s" -> <<"6", "0", "s">>
      [] str = "120s" -> <<"1", "2", "0", "s">>
      [] str = "" -> <<>>
      [] OTHER -> <<"?">>

\* Duration.Seconds of a duration below 2^31 seconds
Seconds(duration) ==
    LET q == DivLimbs(DivLimbs(DivLimbs(duration, 1000, WordLimbs, 0),
                               1000, WordLimbs, 0),
                      1000, WordLimbs, 0)
    IN  q[1] + LimbBase * q[2]

\* ParseDuration, in seconds; -1 for an error
ParseDuration(str) ==
    LET r == ParseDurationChars(Chars(str))
    IN  IF r.err THEN -1 ELSE Seconds(r.duration)

SLOIds == {"a", "b"}

\* two documents in the shape of the repository's test SLOs
SLOCatalog ==
    [id \in SLOIds |->
        [ID |-> id,
         Objective |-> Rat(9, 10),
         ComplianceWindow |-> "1h",
         EvaluationInterval |-> IF id = "a" THEN "30s" ELSE "60s",
         GoodQuery |-> "good",
         TotalQuery |-> "total",
         Rules |-> IF id = "a"
                   THEN <<[Name |-> "fast-burn", ShortWindow |-> "5m",
                           LongWindow |-> "1h", Threshold |-> Rat(2, 1),
                           Action |-> DecisionBLOCK]>>
                   ELSE <<[Name |-> "slow-burn", ShortWindow |-> "5m",
                           LongWindow |-> "1h", Threshold |-> Rat(1, 1),
                           Action |-> DecisionWARN]>>,
         StalenessLimit |-> "120s"]]

----------------------------------------------------------------------------
(* internal/eval: the math and the evaluator *)

NoTS == -1000

\* the states of the metrics backend: per window the good and total counts
\* and the age in seconds of the freshest sample; "down" fails every query
Backends == {"down", "healthy", "burning"}

BackendData(be, window) ==
    CASE be = "healthy" -> [good |-> 99, total |-> 100, age |-> 10]
      [] be = "burning" -> [good |-> 50, total |-> 100, age |-> 10]

\* MetricsAdapter.QueryWindow as the Prometheus adapter answers it: the scalar
\* of the query in both Good and Total, or an error
QueryWindow(be, query, window, now) ==
    IF be = "down"
    THEN [err |-> TRUE]
    ELSE LET data == BackendData(be, window)
             value == IF query = "good" THEN data.good ELSE data.total
         IN  [err |-> FALSE, Window |-> window, Good |-> value, Total |-> value,
              DataTimestamp |-> IF data.age = NoTS THEN NoTS ELSE now - data.age]

\* ComputeSLI without the clamp of good to total
ComputeSLINoClamp(good, total) ==
    IF total = 0
    THEN [Value |-> Rat(0, 1), ErrorRate |-> Rat(0, 1), InsufficientData |-> TRUE]
    ELSE LET sli == Rat(good, total)
         IN  [Value |-> sli,
              ErrorRate |-> RatMax(Rat(0, 1), RatSub(Rat(1, 1), sli)),
              InsufficientData |-> FALSE]

ComputeSLI(good, total) ==
    IF total = 0
    THEN [Value |-> Rat(0, 1), ErrorRate |-> Rat(0, 1), InsufficientData |-> TRUE]
    ELSE LET g == IF good > total THEN total ELSE good
             sli == Rat(g, total)
         IN  [Value |-> sli,
              ErrorRate |-> RatMax(Rat(0, 1), RatSub(Rat(1, 1), sli)),
              InsufficientData |-> FALSE]

ComputeBurnRate(errorRate, objective) ==
    LET errorBudget == RatSub(Rat(1, 1), objective)
    IN  IF RatGE(Rat(0, 1), errorBudget)
        THEN Rat(0, 1)
        ELSE RatDiv(errorRate, errorBudget)

\* ComputeBudgetRemaining without its two clamps
ComputeBudgetRemainingUnclamped(errorRate, objective) ==
    LET errorBudget == RatSub(Rat(1, 1), objective)
    IN  IF RatGE(Rat(0, 1), errorBudget)
        THEN Rat(0, 1)
        ELSE RatSub(Rat(1, 1), RatDiv(errorRate, errorBudget))

ComputeBudgetRemaining(errorRate, objective) ==
    LET errorBudget == RatSub(Rat(1, 1), objective)
        e == IF ~RatGE(errorRate, Rat(0, 1)) THEN Rat(0, 1) ELSE errorRate
        remaining == RatSub(Rat(1, 1), RatDiv(e, errorBudget))
    IN  IF RatGE(Rat(0, 1), errorBudget)
        THEN Rat(0, 1)
        ELSE IF ~RatGE(remaining, Rat(0, 1))
             THEN Rat(0, 1)
             ELSE IF ~RatGE(Rat(1, 1), remaining)
                  THEN Rat(1, 1)
                  ELSE remaining

\* collectWindows with the long windows of the burn rules left out
collectWindowsShortOnly(sloSpec) ==
    {sloSpec.ComplianceWindow}
    \cup {sloSpec.Rules[i].ShortWindow : i \in 1 .. Len(sloSpec.Rules)}

\* collectWindows with the windows of the burn rules left out
collectWindowsComplianceOnly(sloSpec) == {sloSpec.ComplianceWindow}

\* Evaluator.collectWindows
collectWindows(sloSpec) ==
    {sloSpec.ComplianceWindow}
    \cup {sloSpec.Rules[i].ShortWindow : i \in 1 .. Len(sloSpec.Rules)}
    \cup {sloSpec.Rules[i].LongWindow : i \in 1 .. Len(sloSpec.Rules)}

EvalError == [err |-> TRUE]

\* the fold of the two timestamps of a window that keeps the older one
chosenTimestampOlder(g, t) ==
    IF g # NoTS /\ t # NoTS
    THEN (IF g > t THEN t ELSE g)
    ELSE IF g # NoTS THEN g ELSE t

\* chosenTS of Evaluate: the newer of the timestamps of the good and the
\* total query when both exist, else the one that exists, else none
chosenTimestamp(g, t) ==
    IF g # NoTS /\ t # NoTS
    THEN (IF g > t THEN g ELSE t)
    ELSE IF g # NoTS THEN g ELSE t

\* Evaluator.Evaluate, given what the adapter's QueryWindow returns for each
\* query and window: answers[query][window]
Evaluate(sloSpec, now, answers) ==
    LET windows == collectWindows(sloSpec)
        goodM(w) == answers[sloSpec.GoodQuery][w]
        totalM(w) == answers[sloSpec.TotalQuery][w]
        limit == ParseDuration(sloSpec.StalenessLimit)
        haveStalenessLimit == sloSpec.StalenessLimit # "" /\ limit >= 0
        chosenTS(w) ==
            chosenTimestamp(goodM(w).DataTimestamp, totalM(w).DataTimestamp)
        sli(w) == ComputeSLI(goodM(w).Good, totalM(w).Total)
    IN  IF \E w \in windows : goodM(w).err \/ totalM(w).err
        THEN EvalError
        ELSE [err |-> FALSE,
              SLOID |-> sloSpec.ID,
              SLI |-> sli(sloSpec.ComplianceWindow),
              BurnRates |->
                  [w \in windows |->
                      BurnRateResult(
                          w,
                          ComputeBurnRate(sli(w).ErrorRate, sloSpec.Objective),
                          sli(w).Value,
                          sli(w).ErrorRate)],
              BudgetRemaining |->
                  ComputeBudgetRemaining(sli(sloSpec.ComplianceWindow).ErrorRate,
                                         sloSpec.Objective),
              InsufficientData |-> \E w \in windows : sli(w).InsufficientData,
              IsStale |->
                  \E w \in windows :
                      /\ haveStalenessLimit
                      /\ chosenTS(w) # NoTS
                      /\ now - chosenTS(w) > limit,
              Timestamp |-> now]

\* Evaluator.Evaluate with the adapter on the metrics backend in state be
EvaluatorEvaluate(sloSpec, now, be) ==
    Evaluate(sloSpec, now,
             [query \in {sloSpec.GoodQuery, sloSpec.TotalQuery} |->
                 [window \in collectWindows(sloSpec) |->
                     QueryWindow(be, query, window, now)]])

\* the EvaluationState evaluateOnce builds from one evaluation
NewEvaluationState(sloSpec, interval, now, evalResult) ==
    [EvalResult |-> evalResult,
     GateResult |-> PolicyEvaluate(sloSpec.Rules, evalResult),
     UpdatedAt |-> now,
     TTL |-> interval]

----------------------------------------------------------------------------
(* internal/scheduler: StateCache *)

NoAddr == 0
MapAddrs == 1 .. 3

\* the SLO ids in a fixed order
SLOIdSeq == <<"a", "b">>

\* the first map address no live map has
FreshAddr(live) ==
    CHOOSE a \in MapAddrs : a \notin live /\ \A b \in 1 .. a - 1 : b \in live

LiveMaps(states, held) == {states} \cup ({held} \ {NoAddr})
Restrict(f, S) == [x \in DOMAIN f \cap S |-> f[x]]

\* Memory management. The objects no map refers to are collected, and the
\* remaining entry objects are numbered in the order in which the maps, read
\* in a fixed order, first refer to them: which address an object has is not
\* observable, only which references are to the same object.
Collect(ms, hp) ==
    LET n == Len(SLOIdSeq)
        slotMap(i) == ((i - 1) \div n) + 1
        slotKey(i) == SLOIdSeq[((i - 1) % n) + 1]
        slots == {i \in 1 .. 3 * n :
                    slotMap(i) \in DOMAIN ms /\ slotKey(i) \in DOMAIN ms[slotMap(i)]}
        at(i) == ms[slotMap(i)][slotKey(i)]
        first(x) == CHOOSE i \in slots :
                        at(i) = x /\ \A j \in slots : at(j) = x => i <= j
        rank(x) == Cardinality({at(j) : j \in {i \in slots : i < first(x)}}) + 1
        used == {at(i) : i \in slots}
    IN  [maps |-> [m \in DOMAIN ms |-> [k \in DOMAIN ms[m] |-> rank(ms[m][k])]],
         heap |-> [r \in 1 .. Cardinality(used) |->
                      hp[CHOOSE x \in used : rank(x) = r]]]

\* the map a caller reads through a map reference, by value
Deref(ms, hp, m) == [k \in DOMAIN ms[m] |-> hp[ms[m][k]]]

\* GetAll handing out the cache's own map instead of a copy
GetAllAliased(c) ==
    /\ snap = NoAddr
    /\ snap' = c
    /\ snapSeen' = Deref(maps, heap, c)
    /\ UNCHANGED <<cacheStates, maps, heap, got>>

\* StateCache.GetAll on the cache whose map is c: a new map with the same
\* keys and the same entry pointers
GetAll(c) ==
    /\ snap = NoAddr
    /\ LET m == FreshAddr(DOMAIN maps)
       IN  /\ snap' = m
           /\ maps' = maps @@ (m :> maps[c])
    /\ snapSeen' = Deref(maps, heap, c)
    /\ UNCHANGED <<cacheStates, heap, got>>

\* Set writing the fields of the new state into the entry the map holds, and
\* leaving the EvalResult of that entry
SetInPlace(sloID, state) ==
    IF sloID \in DOMAIN maps[cacheStates]
    THEN /\ heap' = [heap EXCEPT ![maps[cacheStates][sloID]] =
                        [@ EXCEPT !.GateResult = state.GateResult,
                                  !.UpdatedAt = state.UpdatedAt,
                                  !.TTL = state.TTL]]
         /\ UNCHANGED <<cacheStates, maps, snap, snapSeen, got>>
    ELSE LET mem == Collect([maps EXCEPT ![cacheStates] =
                                (sloID :> Len(heap) + 1) @@ @],
                            Append(heap, state))
         IN  /\ maps' = mem.maps
             /\ heap' = mem.heap
             /\ UNCHANGED <<cacheStates, snap, snapSeen, got>>

\* StateCache.Set: c.states[sloID] = state, state a newly built object
Set(sloID, state) ==
    LET a == Len(heap) + 1
        newMap == [k \in DOMAIN maps[cacheStates] \cup {sloID} |->
                      IF k = sloID THEN a ELSE maps[cacheStates][k]]
        mem == Collect([maps EXCEPT ![cacheStates] = newMap], Append(heap, state))
    IN  /\ maps' = mem.maps
        /\ heap' = mem.heap
        /\ UNCHANGED <<cacheStates, snap, snapSeen, got>>

\* StateCache.Get
Get(sloID) ==
    /\ got' = IF sloID \in DOMAIN maps[cacheStates]
              THEN [found |-> TRUE, id |-> sloID,
                    state |-> heap[maps[cacheStates][sloID]]]
              ELSE [found |-> FALSE, id |-> sloID]
    /\ UNCHANGED <<cacheStates, maps, heap, snap, snapSeen>>

\* StateCache.Size
Size == Cardinality(DOMAIN maps[cacheStates])

\* StateCache.Delete
Delete(sloID) ==
    LET mem == Collect([maps EXCEPT ![cacheStates] =
                            Restrict(@, DOMAIN @ \ {sloID})], heap)
    IN  /\ maps' = mem.maps
        /\ heap' = mem.heap
        /\ UNCHANGED <<cacheStates, snap, snapSeen, got>>

\* StateCache.Clear: c.states = make(map)
Clear ==
    LET m == FreshAddr(DOMAIN maps)
        mem == Collect(Restrict(maps @@ (m :> <<>>), LiveMaps(m, snap)), heap)
    IN  /\ cacheStates' = m
        /\ maps' = mem.maps
        /\ heap' = mem.heap
        /\ UNCHANGED <<snap, snapSeen, got>>

\* the holder of a snapshot adds a key to the map it was given
SnapshotAddKey(k, a) ==
    /\ snap # NoAddr
    /\ a \in DOMAIN heap
    /\ LET mem == Collect([maps EXCEPT ![snap] =
                        [x \in DOMAIN @ \cup {k} |-> IF x = k THEN a ELSE @[x]]],
                          heap)
       IN  /\ maps' = mem.maps
           /\ heap' = mem.heap
    /\ snapSeen' = [x \in DOMAIN snapSeen \cup {k} |->
                        IF x = k THEN heap[a] ELSE snapSeen[x]]
    /\ UNCHANGED <<cacheStates, snap, got>>

\* the holder of a snapshot removes a key from the map it was given
SnapshotRemoveKey(k) ==
    /\ snap # NoAddr
    /\ k \in DOMAIN maps[snap]
    /\ LET mem == Collect([maps EXCEPT ![snap] = Restrict(@, DOMAIN @ \ {k})],
                          heap)
       IN  /\ maps' = mem.maps
           /\ heap' = mem.heap
    /\ snapSeen' = Restrict(snapSeen, DOMAIN snapSeen \ {k})
    /\ UNCHANGED <<cacheStates, snap, got>>

\* the holder of a snapshot lets go of it
SnapshotDrop ==
    /\ snap # NoAddr
    /\ snap' = NoAddr
    /\ snapSeen' = <<>>
    /\ LET mem == Collect(Restrict(maps, LiveMaps(cacheStates, NoAddr)), heap)
       IN  /\ maps' = mem.maps
           /\ heap' = mem.heap
    /\ UNCHANGED <<cacheStates, got>>

\* what a reader holds before Get has returned to it
NoGot == [found |-> FALSE, id |-> ""]

\* NewStateCache
CacheInit ==
    /\ cacheStates = 1
    /\ maps = (1 :> <<>>)
    /\ heap = <<>>
    /\ snap = NoAddr
    /\ snapSeen = <<>>
    /\ got = NoGot

\* the entries the cache's callers store: what evaluateOnce builds
DrawnStates(sloID) ==
    {NewEvaluationState(SLOCatalog[sloID],
                        ParseDuration(SLOCatalog[sloID].EvaluationInterval),
                        now,
                        EvaluatorEvaluate(SLOCatalog[sloID], now, b)) :
        now \in 0 .. MaxClock - 1, b \in {"burning"}}

CacheSetCall == \E id \in SLOIds : \E st \in DrawnStates(id) : Set(id, st) /\ CacheFrame
CacheGetAllCall == GetAll(cacheStates) /\ CacheFrame
CacheDeleteCall == \E id \in SLOIds : Delete(id) /\ CacheFrame
CacheClearCall == Clear /\ CacheFrame
CacheSnapshotAddKey ==
    \E k \in SLOIds : \E a \in DOMAIN heap : SnapshotAddKey(k, a) /\ CacheFrame
CacheSnapshotRemoveKey == \E k \in SLOIds : SnapshotRemoveKey(k) /\ CacheFrame
CacheSnapshotDrop == SnapshotDrop /\ CacheFrame

----------------------------------------------------------------------------
(* internal/scheduler: the Scheduler, and the gate-decision handler of      *)
(* internal/api that calls it                                               *)

Nil == [nil |-> TRUE]

\* the HTTP handler of POST /v1/gate/decision, which runs evaluateOnce too
Handler == <<0, 1>>
IdleWorker ==
    [slo |-> "", pc |-> "idle", now |-> 0, res |-> Nil, err |-> FALSE,
     force |-> FALSE, ret |-> "none"]

\* the ids a gate-decision request may name: the documents', and one no
\* document has
RequestIds == SLOIds \cup {"zz"}

\* the files of an SLO directory: the id in the document, whether it is YAML
\* that parses, and whether the validator accepts it
File(id, parses, valid) == [id |-> id, parses |-> parses, valid |-> valid]
Directories ==
    {<<>>,
     <<File("a", TRUE, TRUE)>>,
     <<File("a", TRUE, TRUE), File("b", TRUE, TRUE)>>,
     <<File("a", TRUE, TRUE), File("b", TRUE, FALSE)>>,
     <<File("a", TRUE, TRUE), File("b", FALSE, FALSE)>>,
     <<File("a", TRUE, TRUE), File("a", TRUE, TRUE)>>,
     <<File("a", TRUE, TRUE), File("b", TRUE, TRUE), File("a", TRUE, TRUE)>>,
     <<File("b", TRUE, TRUE), File("b", TRUE, TRUE), File("b", TRUE, TRUE)>>}

RECURSIVE Parsed(_)
Parsed(dir) ==
    IF dir = <<>>
    THEN <<>>
    ELSE (IF dir[1].parses THEN <<dir[1].id>> ELSE <<>>) \o Parsed(Tail(dir))

\* slo.LoadFromDirectory: the documents that parse, and an error per file
\* that does not
LoadFromDirectory(dir) ==
    [files |-> Parsed(dir),
     errors |-> {i \in 1 .. Len(dir) : ~dir[i].parses}]

\* a ValidationError: the file it is reported on, its kind, and the file its
\* message names beside (0 for none)
ValidationError(file, kind, other) ==
    [file |-> file, kind |-> kind, other |-> other]

\* the duplicate check that looks at the file just before only
RECURSIVE validateExtraRulesAdjacent(_, _, _)
validateExtraRulesAdjacent(dir, i, idSeen) ==
    IF i > Len(dir)
    THEN {}
    ELSE IF ~dir[i].parses
         THEN validateExtraRulesAdjacent(dir, i + 1, idSeen)
         ELSE (IF dir[i].id \in DOMAIN idSeen /\ idSeen[dir[i].id] = i - 1
               THEN {ValidationError(i, "duplicate ID", idSeen[dir[i].id])}
               ELSE {})
              \cup validateExtraRulesAdjacent(dir, i + 1,
                                              (dir[i].id :> i) @@ idSeen)

\* Validator.validateExtraRules over the loaded files from file i on: idSeen
\* maps an id to the first file that carries it; a later file with the id
\* gets a duplicate-ID error that names that first file. (The compliance
\* window rule is part of the valid flag of a file.)
RECURSIVE validateExtraRules(_, _, _)
validateExtraRules(dir, i, idSeen) ==
    IF i > Len(dir)
    THEN {}
    ELSE IF ~dir[i].parses
         THEN validateExtraRules(dir, i + 1, idSeen)
         ELSE IF dir[i].id \in DOMAIN idSeen
              THEN {ValidationError(i, "duplicate ID", idSeen[dir[i].id])}
                   \cup validateExtraRules(dir, i + 1, idSeen)
              ELSE validateExtraRules(dir, i + 1, idSeen @@ (dir[i].id :> i))

\* Validator.ValidateDirectory: the load errors, the schema errors and the
\* errors of the extra rules
ValidateDirectory(dir) ==
    {ValidationError(i, "load", 0) : i \in LoadFromDirectory(dir).errors}
    \cup {ValidationError(i, "schema", 0) :
              i \in {k \in 1 .. Len(dir) : dir[k].parses /\ ~dir[k].valid}}
    \cup validateExtraRules(dir, 1, <<>>)

\* a call the audit sink receives, and whether it returns nil
AuditCall(method, id) == [method |-> method, id |-> id, ok |-> sinkOk]

\* the worker's record when its evaluateOnce call returns: an evaluateLoop
\* goes to its select, the handler on to cache.Get. A goroutine that has
\* returned has no record. To the handler EvaluateNow returns nil once
\* evaluateOnce has returned.
After(k, w) ==
    IF k = Handler
    THEN [w EXCEPT !.pc = "get", !.res = Nil, !.now = 0, !.ret = "ok"]
    ELSE [w EXCEPT !.pc = "select", !.res = Nil, !.err = FALSE]

\* the thread that calls Start, between calls
IdleStarter ==
    [pc |-> "idle", ret |-> "none", ctx |-> 0, todo |-> <<>>, i |-> 1,
     sawRunning |-> FALSE, created |-> {}]

SchedInit ==
    /\ clock = 0
    /\ backend = "healthy"
    /\ slos = <<>>
    /\ running = FALSE
    /\ cancel = 0
    /\ cancelled = {}
    /\ wg = 0
    /\ auditOn = FALSE
    /\ auditLog = {}
    /\ workers = (Handler :> IdleWorker)
    /\ starter = IdleStarter
    /\ stopper = [pc |-> "idle", ctx |-> 0]
    /\ stopped = {}
    /\ loadRet = "none"
    /\ sinkOk = TRUE

\* time passes
Tick ==
    /\ clock + 1 < MaxClock
    /\ clock' = clock + 1
    /\ UNCHANGED <<backend, slos, running, cancel, cancelled, wg, auditOn,
                   auditLog, workers, starter, stopper, stopped>>
    /\ UNCHANGED cacheVars /\ SchedFrame

\* the metrics backend goes down, comes back, or serves other data
BackendChange ==
    /\ \E b \in Backends \ {backend} : backend' = b
    /\ UNCHANGED <<clock, slos, running, cancel, cancelled, wg, auditOn,
                   auditLog, workers, starter, stopper, stopped>>
    /\ UNCHANGED cacheVars /\ SchedFrame

\* the audit storage starts to fail its calls, or recovers
SinkChange ==
    /\ sinkOk' = ~sinkOk
    /\ UNCHANGED <<clock, backend, slos, running, cancel, cancelled, wg,
                   auditOn, auditLog, workers, starter, stopper, stopped,
                   loadRet>>
    /\ UNCHANGED <<cacheVars, polVars, adVars, fnVars>>

\* Scheduler.SetAuditStorage with a sink
SetAuditStorage ==
    /\ ~auditOn
    /\ auditOn' = TRUE
    /\ UNCHANGED <<clock, backend, slos, running, cancel, cancelled, wg,
                   auditLog, workers, starter, stopper, stopped>>
    /\ UNCHANGED cacheVars /\ SchedFrame

\* the directories that hold one document
SingleDirectories == {dir \in Directories : Len(dir) <= 1}

\* LoadSLOs admitting the files that parse and validate, whatever the rest
LoadOutcomeLenient(dir) ==
    LET good == SelectSeq(dir, LAMBDA f : f.parses /\ f.valid)
    IN  [err |-> Len(good) = 0,
         files |-> [i \in 1 .. Len(good) |-> good[i].id]]

\* what LoadSLOs decides on a directory: the error returns for load errors,
\* for no file and for validation errors, else the files it memoizes
LoadOutcome(dir) ==
    LET loaded == LoadFromDirectory(dir)
    IN  IF \/ loaded.errors # {}
           \/ Len(loaded.files) = 0
           \/ ValidateDirectory(dir) # {}
        THEN [err |-> TRUE, files |-> <<>>]
        ELSE [err |-> FALSE, files |-> loaded.files]

\* Scheduler.LoadSLOs on the directory dir
LoadSLOsOn(dir) ==
    /\ LET out == LoadOutcome(dir)
       IN  IF out.err
           THEN /\ loadRet' = "error"
                /\ UNCHANGED <<slos, auditLog>>
           ELSE /\ loadRet' = "ok"
                /\ slos' = out.files
                /\ auditLog' =
                     IF auditOn
                     THEN auditLog \cup
                          {AuditCall("StoreSLODefinition", out.files[i]) :
                              i \in 1 .. Len(out.files)}
                     ELSE auditLog
    /\ UNCHANGED <<clock, backend, running, cancel, cancelled, wg, auditOn,
                   workers, starter, stopper, stopped, sinkOk>>
    /\ UNCHANGED <<cacheVars, polVars, adVars, fnVars>>

\* Scheduler.LoadSLOs on a directory out of dirs
LoadSLOsFrom(dirs) == \E dir \in dirs : LoadSLOsOn(dir)

LoadSLOs == LoadSLOsFrom(Directories)
LoadSLOsSingle == LoadSLOsFrom(SingleDirectories)

\* Start's guard under the lock: neither running nor without SLOs
StartAdmitsAlways(isRunning, loaded) == TRUE
StartAdmits(isRunning, loaded) == ~isRunning /\ Len(loaded) # 0

\* Scheduler.Start up to the unlock: the guard, the new context, running
StartCallBelow(limit) ==
    /\ starter.pc = "idle"
    /\ IF StartAdmits(running, slos)
       THEN /\ cancel < limit
            /\ cancel' = cancel + 1
            /\ running' = TRUE
            /\ starter' = [pc |-> "spawning", ret |-> "none", ctx |-> cancel + 1,
                           todo |-> slos, i |-> 1, sawRunning |-> running,
                           created |-> {}]
       ELSE /\ starter' = [pc |-> "returned", ret |-> "error", ctx |-> 0,
                           todo |-> slos, i |-> 1, sawRunning |-> running,
                           created |-> {}]
            /\ UNCHANGED <<cancel, running>>
    /\ UNCHANGED <<clock, backend, slos, cancelled, wg, auditOn, auditLog,
                   workers, stopper, stopped>>
    /\ UNCHANGED cacheVars /\ SchedFrame

StartCall == StartCallBelow(MaxStarts)

\* one round of Start's loop: s.wg.Add(1); go s.evaluateLoop(ctx, slo)
StartSpawn ==
    /\ starter.pc = "spawning"
    /\ starter.i <= Len(starter.todo)
    /\ LET k == <<starter.ctx, starter.i>>
       IN  /\ wg' = wg + 1
           /\ workers' = workers @@
                (k :> [IdleWorker EXCEPT !.slo = starter.todo[starter.i],
                                         !.pc = "spawned"])
           /\ starter' = [starter EXCEPT !.i = @ + 1,
                                         !.created = @ \cup
                                            {<<k, starter.todo[starter.i]>>}]
    /\ UNCHANGED <<clock, backend, slos, running, cancel, cancelled, auditOn,
                   auditLog, stopper, stopped>>
    /\ UNCHANGED cacheVars /\ SchedFrame

\* Start returns nil
StartReturn ==
    /\ starter.pc = "spawning"
    /\ starter.i > Len(starter.todo)
    /\ starter' = [starter EXCEPT !.pc = "returned", !.ret = "ok"]
    /\ UNCHANGED <<clock, backend, slos, running, cancel, cancelled, wg,
                   auditOn, auditLog, workers, stopper, stopped>>
    /\ UNCHANGED cacheVars /\ SchedFrame

\* the caller of Start goes on with what Start returned
StartCallerResumes ==
    /\ starter.pc = "returned"
    /\ starter' = IdleStarter
    /\ UNCHANGED <<clock, backend, slos, running, cancel, cancelled, wg,
                   auditOn, auditLog, workers, stopper, stopped>>
    /\ UNCHANGED cacheVars /\ SchedFrame

\* Scheduler.Stop up to the unlock: return if not running, else cancel
StopCall ==
    /\ stopper.pc = "idle"
    /\ IF ~running
       THEN UNCHANGED <<cancelled, running, stopper>>
       ELSE /\ cancelled' = cancelled \cup {cancel}
            /\ running' = FALSE
            /\ stopper' = [pc |-> "waiting", ctx |-> cancel]
    /\ UNCHANGED <<clock, backend, slos, cancel, wg, auditOn, auditLog,
                   workers, starter, stopped>>
    /\ UNCHANGED cacheVars /\ SchedFrame

\* Stop's s.wg.Wait() returns, and Stop with it
StopWait ==
    /\ stopper.pc = "waiting"
    /\ wg = 0
    /\ stopper' = [stopper EXCEPT !.pc = "idle"]
    /\ stopped' = stopped \cup {stopper.ctx}
    /\ UNCHANGED <<clock, backend, slos, running, cancel, cancelled, wg,
                   auditOn, auditLog, workers, starter>>
    /\ UNCHANGED cacheVars /\ SchedFrame

Tasks == DOMAIN workers \ {Handler}

\* evaluateLoop begins: ParseDuration, then the initial evaluateOnce reads
\* time.Now()
TaskStart(k) ==
    /\ workers[k].pc = "spawned"
    /\ IF ParseDuration(SLOCatalog[workers[k].slo].EvaluationInterval) < 0
       THEN /\ workers' = Restrict(workers, DOMAIN workers \ {k})
            /\ wg' = wg - 1
       ELSE /\ workers' = [workers EXCEPT ![k].pc = "evaluating",
                                          ![k].now = clock]
            /\ UNCHANGED wg
    /\ UNCHANGED <<clock, backend, slos, running, cancel, cancelled, auditOn,
                   auditLog, starter, stopper, stopped>>
    /\ UNCHANGED cacheVars /\ SchedFrame

\* evaluateLoop's select takes a tick of its ticker: evaluateOnce reads
\* time.Now()
TaskTick(k) ==
    /\ workers[k].pc = "select"
    /\ clock > workers[k].now
    /\ workers' = [workers EXCEPT ![k].pc = "evaluating", ![k].now = clock]
    /\ UNCHANGED <<clock, backend, slos, running, cancel, cancelled, wg,
                   auditOn, auditLog, starter, stopper, stopped>>
    /\ UNCHANGED cacheVars /\ SchedFrame

\* evaluateLoop's select takes ctx.Done(): return, and the deferred wg.Done()
TaskCancelled(k) ==
    /\ workers[k].pc = "select"
    /\ k[1] \in cancelled
    /\ workers' = Restrict(workers, DOMAIN workers \ {k})
    /\ wg' = wg - 1
    /\ UNCHANGED <<clock, backend, slos, running, cancel, cancelled, auditOn,
                   auditLog, starter, stopper, stopped>>
    /\ UNCHANGED cacheVars /\ SchedFrame

\* evaluateOnce on an error of the evaluator storing a BLOCK entry
EvaluateFailedStoresBlock(k) ==
    /\ workers' = [workers EXCEPT ![k] = After(k, [@ EXCEPT !.err = TRUE])]
    /\ Set(workers[k].slo,
           [EvalResult |-> EvalError,
            GateResult |-> [Decision |-> DecisionBLOCK],
            UpdatedAt |-> workers[k].now,
            TTL |-> ParseDuration(SLOCatalog[workers[k].slo].EvaluationInterval)])
    /\ UNCHANGED auditLog

\* evaluateOnce on an error of the evaluator: log it and return
EvaluateFailed(k) ==
    /\ workers' = [workers EXCEPT ![k] = After(k, [@ EXCEPT !.err = TRUE])]
    /\ UNCHANGED cacheVars
    /\ UNCHANGED auditLog

\* evaluateOnce: s.evaluator.Evaluate(sloSpec, now) returns
EvaluatorReturns(k) ==
    /\ workers[k].pc = "evaluating"
    /\ LET r == EvaluatorEvaluate(SLOCatalog[workers[k].slo], workers[k].now,
                                  backend)
       IN  IF r.err
           THEN EvaluateFailed(k)
           ELSE /\ workers' = [workers EXCEPT ![k].pc = "set", ![k].res = r]
                /\ UNCHANGED cacheVars
                /\ UNCHANGED auditLog
    /\ UNCHANGED <<clock, backend, slos, running, cancel, cancelled, wg,
                   auditOn, starter, stopper, stopped>>
    /\ SchedFrame

\* evaluateOnce going on to the audit sink without s.cache.Set
CacheSetSkipped(k) ==
    /\ workers[k].pc = "set"
    /\ workers' = [workers EXCEPT ![k].pc = "audit"]
    /\ UNCHANGED <<clock, backend, slos, running, cancel, cancelled, wg,
                   auditOn, auditLog, starter, stopper, stopped>>
    /\ UNCHANGED cacheVars /\ SchedFrame

\* evaluateOnce: the policy, the new EvaluationState, s.cache.Set
CacheSet(k) ==
    /\ workers[k].pc = "set"
    /\ Set(workers[k].slo,
           NewEvaluationState(
               SLOCatalog[workers[k].slo],
               ParseDuration(SLOCatalog[workers[k].slo].EvaluationInterval),
               workers[k].now, workers[k].res))
    /\ workers' = [workers EXCEPT ![k].pc = "audit"]
    /\ UNCHANGED <<clock, backend, slos, running, cancel, cancelled, wg,
                   auditOn, auditLog, starter, stopper, stopped>>
    /\ SchedFrame

\* evaluateOnce returning on an error of audit.StoreEvaluation
StoreEvaluationFailFast(k) ==
    /\ workers[k].pc = "audit"
    /\ IF auditOn
       THEN /\ auditLog' = auditLog \cup
                  {AuditCall("StoreEvaluation", workers[k].slo)}
            /\ workers' = IF sinkOk
                          THEN [workers EXCEPT ![k].pc = "latest"]
                          ELSE [workers EXCEPT ![k] = After(k, @)]
       ELSE /\ workers' = [workers EXCEPT ![k] = After(k, @)]
            /\ UNCHANGED auditLog
    /\ UNCHANGED <<clock, backend, slos, running, cancel, cancelled, wg,
                   auditOn, starter, stopper, stopped>>
    /\ UNCHANGED cacheVars /\ SchedFrame

\* evaluateOnce: read s.audit; if there is a sink, audit.StoreEvaluation
\* (its error is logged)
StoreEvaluation(k) ==
    /\ workers[k].pc = "audit"
    /\ IF auditOn
       THEN /\ auditLog' = auditLog \cup
                  {AuditCall("StoreEvaluation", workers[k].slo)}
            /\ workers' = [workers EXCEPT ![k].pc = "latest"]
       ELSE /\ workers' = [workers EXCEPT ![k] = After(k, @)]
            /\ UNCHANGED auditLog
    /\ UNCHANGED <<clock, backend, slos, running, cancel, cancelled, wg,
                   auditOn, starter, stopper, stopped>>
    /\ UNCHANGED cacheVars /\ SchedFrame

\* evaluateOnce: audit.UpdateLatestState, and evaluateOnce returns
UpdateLatestState(k) ==
    /\ workers[k].pc = "latest"
    /\ auditLog' = auditLog \cup
          {AuditCall("UpdateLatestState", workers[k].slo)}
    /\ workers' = [workers EXCEPT ![k] = After(k, @)]
    /\ UNCHANGED <<clock, backend, slos, running, cancel, cancelled, wg,
                   auditOn, starter, stopper, stopped>>
    /\ UNCHANGED cacheVars /\ SchedFrame

\* handleGateDecision receives a request; with forceFresh it calls
\* EvaluateNow, which looks the id up and enters evaluateOnce, or returns
\* the error the handler answers with status 500
GateRequest(id, force) ==
    /\ workers[Handler].pc = "idle"
    /\ workers' = [workers EXCEPT ![Handler] =
          IF force
          THEN IF \E i \in 1 .. Len(slos) : slos[i] = id
               THEN IF ParseDuration(SLOCatalog[id].EvaluationInterval) < 0
                    THEN [IdleWorker EXCEPT !.slo = id, !.force = TRUE,
                                            !.pc = "respond500",
                                            !.ret = "error"]
                    ELSE [IdleWorker EXCEPT !.slo = id, !.force = TRUE,
                                            !.pc = "evaluating",
                                            !.now = clock]
               ELSE [IdleWorker EXCEPT !.slo = id, !.force = TRUE,
                                       !.pc = "respond500",
                                       !.ret = "notfound"]
          ELSE [IdleWorker EXCEPT !.slo = id, !.pc = "get"]]
    /\ UNCHANGED <<clock, backend, slos, running, cancel, cancelled, wg,
                   auditOn, auditLog, starter, stopper, stopped>>
    /\ UNCHANGED cacheVars /\ SchedFrame

\* handleGateDecision: state, ok := cache.Get(req.SLOID)
GateGet ==
    /\ workers[Handler].pc = "get"
    /\ Get(workers[Handler].slo)
    /\ workers' = [workers EXCEPT ![Handler].pc = "respond"]
    /\ UNCHANGED <<clock, backend, slos, running, cancel, cancelled, wg,
                   auditOn, auditLog, starter, stopper, stopped>>
    /\ SchedFrame

\* the response handleGateDecision writes once cache.Get has returned
DecisionResponse(h, g) ==
    IF g.found
    THEN [status |-> 200, id |-> g.state.EvalResult.SLOID,
          decision |-> g.state.GateResult.Decision,
          timestamp |-> g.state.EvalResult.Timestamp]
    ELSE [status |-> 404, id |-> h.slo]

\* handleGateDecision writes its response and returns
GateRespond ==
    /\ workers[Handler].pc \in {"respond", "respond500"}
    /\ workers' = [workers EXCEPT ![Handler] = IdleWorker]
    /\ got' = NoGot
    /\ UNCHANGED <<cacheStates, maps, heap, snap, snapSeen>>
    /\ UNCHANGED <<clock, backend, slos, running, cancel, cancelled, wg,
                   auditOn, auditLog, starter, stopper, stopped>>
    /\ SchedFrame

\* handleReady: the response to GET /readyz on the scheduler's SLOs and the
\* size of its cache
handleReady ==
    LET ready == Len(slos) > 0
    IN  [status |-> IF ready THEN 200 ELSE 503,
         Ready |-> ready,
         SLOsLoaded |-> Len(slos),
         Reasons |-> (IF Len(slos) = 0 THEN <<"no SLOs loaded">> ELSE <<>>)
                     \o (IF Size = 0 THEN <<"no evaluations cached yet">>
                         ELSE <<>>)]

TaskStarts == \E k \in Tasks : TaskStart(k)
TaskTicks == \E k \in Tasks : TaskTick(k)
TaskCancels == \E k \in Tasks : TaskCancelled(k)
EvaluatorReturn == \E k \in DOMAIN workers : EvaluatorReturns(k)
CacheSets == \E k \in DOMAIN workers : CacheSet(k)
StoreEvaluations == \E k \in DOMAIN workers : StoreEvaluation(k)
UpdateLatestStates == \E k \in DOMAIN workers : UpdateLatestState(k)
GateRequests == \E id \in RequestIds : \E force \in BOOLEAN : GateRequest(id, force)

----------------------------------------------------------------------------
(* Specifications *)

\* the policy engine on every drawn input
InitPolicy == PolicyInit /\ AdapterInit /\ CacheInit /\ SchedInit /\ FnIdle

NextPolicy == PolicyNext

SpecPolicy == InitPolicy /\ [][NextPolicy]_vars

\* concurrent QueryWindow calls on one adapter
InitAdapter == PolicyIdle /\ AdapterInit /\ CacheInit /\ SchedInit /\ FnIdle

NextAdapter == AdapterNext

SpecAdapter == InitAdapter /\ [][NextAdapter]_vars

\* the StateCache under every sequence of its operations
InitCache == PolicyIdle /\ AdapterInit /\ CacheInit /\ SchedInit /\ FnIdle

NextCache ==
    \/ CacheSetCall
    \/ CacheGetAllCall
    \/ CacheDeleteCall
    \/ CacheClearCall
    \/ CacheSnapshotAddKey
    \/ CacheSnapshotRemoveKey
    \/ CacheSnapshotDrop

SpecCache == InitCache /\ [][NextCache]_vars

\* the life cycle of the scheduler: the callers of SetAuditStorage, LoadSLOs,
\* Start and Stop, the evaluateLoop goroutines, and the clock
InitSched == PolicyIdle /\ AdapterInit /\ CacheInit /\ SchedInit /\ FnIdle

NextSched ==
    \/ Tick
    \/ SetAuditStorage
    \/ LoadSLOs
    \/ StartCall
    \/ StartSpawn
    \/ StartReturn
    \/ StartCallerResumes
    \/ StopCall
    \/ StopWait
    \/ TaskStarts
    \/ TaskTicks
    \/ TaskCancels
    \/ EvaluatorReturn
    \/ CacheSets
    \/ StoreEvaluations
    \/ UpdateLatestStates

SpecSched == InitSched /\ [][NextSched]_vars

\* one SLO served: its evaluateLoop, the gate-decision handler with and
\* without forceFresh, the clock, and the metrics backend going down and
\* coming back
InitGate == PolicyIdle /\ AdapterInit /\ CacheInit /\ SchedInit /\ FnIdle

NextGate ==
    \/ Tick
    \/ BackendChange
    \/ SetAuditStorage
    \/ LoadSLOsSingle
    \/ StartCall
    \/ StartSpawn
    \/ StartReturn
    \/ StartCallerResumes
    \/ TaskStarts
    \/ TaskTicks
    \/ EvaluatorReturn
    \/ CacheSets
    \/ StoreEvaluations
    \/ UpdateLatestStates
    \/ GateRequests
    \/ GateGet
    \/ GateRespond

SpecGate == InitGate /\ [][NextGate]_vars

\* one SLO evaluated on its ticks while the audit storage fails and recovers
InitAudit == PolicyIdle /\ AdapterInit /\ CacheInit /\ SchedInit /\ FnIdle

NextAudit ==
    \/ Tick
    \/ SinkChange
    \/ SetAuditStorage
    \/ LoadSLOsSingle
    \/ StartCall
    \/ StartSpawn
    \/ StartReturn
    \/ StartCallerResumes
    \/ TaskStarts
    \/ TaskTicks
    \/ EvaluatorReturn
    \/ CacheSets
    \/ StoreEvaluations
    \/ UpdateLatestStates

SpecAudit == InitAudit /\ [][NextAudit]_vars

----------------------------------------------------------------------------
(* internal/eval: Evaluate on drawn SLOs and drawn window metrics *)

\* what a window's queries return: an error, or the good and total counts
\* and the age of the newest sample of each query (NoTS for no timestamp)
WindowData ==
    {[err |-> TRUE, good |-> 0, total |-> 0, goodAge |-> 0, totalAge |-> 0]}
    \cup {[err |-> FALSE, good |-> g, total |-> t,
           goodAge |-> 0, totalAge |-> 0] :
             g \in 0 .. MaxCount, t \in 0 .. MaxCount}

\* MetricsAdapter.QueryWindow of an adapter that serves the drawn data
QueryDrawn(data, query, window, now) ==
    IF data[window].err
    THEN [err |-> TRUE]
    ELSE LET value == IF query = "good" THEN data[window].good
                      ELSE data[window].total
             age == IF query = "good" THEN data[window].goodAge
                    ELSE data[window].totalAge
         IN  [err |-> FALSE, Window |-> window, Good |-> value,
              Total |-> value,
              DataTimestamp |-> IF age = NoTS THEN NoTS ELSE now - age]

\* what that adapter returns for each query and window of the SLO
DrawnAnswers(sloSpec, data, now) ==
    [query \in {sloSpec.GoodQuery, sloSpec.TotalQuery} |->
        [window \in collectWindows(sloSpec) |->
            QueryDrawn(data, query, window, now)]]

EvalObjectives == {Rat(1, 4), Rat(9, 10)}

EvalRules ==
    [Name : {"rule"}, ShortWindow : Windows, LongWindow : Windows,
     Threshold : {Rat(1, 1)}, Action : {DecisionBLOCK}]

\* the SLO specs handed to Evaluate
EvalSLOs ==
    [ID : {"a"}, Objective : EvalObjectives, ComplianceWindow : Windows,
     EvaluationInterval : {"30s"}, StalenessLimit : {""},
     GoodQuery : {"good"}, TotalQuery : {"total"},
     Rules : UNION {[1 .. k -> EvalRules] : k \in 0 .. MaxRules}]

EvalInit ==
    /\ fnArg \in [fn : {"Evaluate"}, slo : EvalSLOs,
                  data : [Windows -> WindowData]]
    /\ fnRes = NoCall

\* a caller hands the drawn SLO to Evaluate
CallEvaluate ==
    /\ fnArg.fn = "Evaluate"
    /\ fnRes = NoCall
    /\ fnRes' = Evaluate(fnArg.slo, 0, DrawnAnswers(fnArg.slo, fnArg.data, 0))
    /\ UNCHANGED fnArg
    /\ FnFrame

InitEval == PolicyIdle /\ AdapterInit /\ CacheInit /\ SchedInit /\ EvalInit

NextEval == CallEvaluate

SpecEval == InitEval /\ [][NextEval]_vars

----------------------------------------------------------------------------
(* internal/eval: ComputeSLI on drawn good and total *)

SLIInit ==
    /\ fnArg \in [fn : {"ComputeSLI"}, good : 0 .. MaxMetric,
                  total : 0 .. MaxMetric]
    /\ fnRes = NoCall

CallComputeSLI ==
    /\ fnArg.fn = "ComputeSLI"
    /\ fnRes = NoCall
    /\ fnRes' = ComputeSLI(fnArg.good, fnArg.total)
    /\ UNCHANGED fnArg
    /\ FnFrame

InitSLI == PolicyIdle /\ AdapterInit /\ CacheInit /\ SchedInit /\ SLIInit

NextSLI == CallComputeSLI

SpecSLI == InitSLI /\ [][NextSLI]_vars

----------------------------------------------------------------------------
(* internal/slo: ParseDuration on drawn strings *)

DurationAlphabet == {"0", "1", "9", "s", "m", "h", "d", "x", "-", ".", " "}

\* the strings of the repository's tests, and the strings around the largest
\* number of each unit that an int64 of nanoseconds holds and around the
\* largest int64
BoundaryInputs ==
    {<<"2", "4", "h">>,
     <<"3", "0", "d">>,
     <<"7", "d">>,
     <<"i", "n", "v", "a", "l", "i", "d">>,
     <<"3", "0", "x">>,
     <<"3", "0", " ", "s">>,
     <<"s", "3", "0">>,
     <<"-", "5", "m">>,
     <<"1", ".", "5", "h">>,
     <<"+", "5", "m">>,
     <<"5", "m", "\n">>,
     <<"5", "M">>,
     <<"0", "0", "7", "s">>,
     <<"1", "0", "6", "7", "5", "1", "d">>,
     <<"1", "0", "6", "7", "5", "2", "d">>,
     <<"2", "5", "6", "2", "0", "4", "7", "h">>,
     <<"2", "5", "6", "2", "0", "4", "8", "h">>,
     <<"1", "5", "3", "7", "2", "2", "8", "6", "7", "m">>,
     <<"1", "5", "3", "7", "2", "2", "8", "6", "8", "m">>,
     <<"9", "2", "2", "3", "3", "7", "2", "0", "3", "6", "s">>,
     <<"9", "2", "2", "3", "3", "7", "2", "0", "3", "7", "s">>,
     <<"9", "2", "2", "3", "3", "7", "2", "0", "3", "6", "8", "5", "4", "7", "7", "5", "8", "0", "7", "s">>,
     <<"9", "2", "2", "3", "3", "7", "2", "0", "3", "6", "8", "5", "4", "7", "7", "5", "8", "0", "8", "s">>,
     <<"9", "9", "9", "9", "9", "9", "9", "9", "9", "9", "9", "9", "9", "9", "9", "9", "9", "9", "9", "9", "s">>}

\* every string of at most MaxChars characters of the alphabet, and the
\* boundary strings
DurationInputs ==
    UNION {[1 .. k -> DurationAlphabet] : k \in 0 .. MaxChars}
    \cup BoundaryInputs

DurationInit ==
    /\ fnArg \in [fn : {"ParseDuration"}, chars : DurationInputs]
    /\ fnRes = NoCall

CallParseDuration ==
    /\ fnArg.fn = "ParseDuration"
    /\ fnRes = NoCall
    /\ fnRes' = ParseDurationChars(fnArg.chars)
    /\ UNCHANGED fnArg
    /\ FnFrame

InitDuration ==
    PolicyIdle /\ AdapterInit /\ CacheInit /\ SchedInit /\ DurationInit

NextDuration == CallParseDuration

SpecDuration == InitDuration /\ [][NextDuration]_vars

----------------------------------------------------------------------------
(* internal/slo: validateComplianceWindow on drawn SLOs *)

\* a < b on the limbs from limb i down, as unsigned numbers
RECURSIVE LimbsLess(_, _, _)
LimbsLess(a, b, i) ==
    IF i = 0
    THEN FALSE
    ELSE IF a[i] # b[i] THEN a[i] < b[i] ELSE LimbsLess(a, b, i - 1)

\* a < b on int64 values (Go's < on time.Duration)
Int64Less(a, b) ==
    LET aNegative == a[WordLimbs] >= LimbBase \div 2
        bNegative == b[WordLimbs] >= LimbBase \div 2
    IN  IF aNegative # bNegative
        THEN aNegative
        ELSE LimbsLess(a, b, WordLimbs)

\* the loop of validateComplianceWindow over the burn rules from rule i on:
\* acc holds maxPolicyWindow and the errors so far
RECURSIVE maxPolicyWindow(_, _, _)
maxPolicyWindow(rules, i, acc) ==
    IF i > Len(rules)
    THEN acc
    ELSE LET shortDur == ParseDurationChars(rules[i].ShortWindow)
             longDur == ParseDurationChars(rules[i].LongWindow)
             path(field) == [field |-> field, rule |-> i - 1]
             invalid(field) ==
                 [acc EXCEPT !.errors = @ \o <<[Path |-> path(field),
                                                Message |-> "invalid duration"]>>]
             afterShort == IF Int64Less(acc.max, shortDur.duration)
                           THEN shortDur.duration ELSE acc.max
             afterLong == IF Int64Less(afterShort, longDur.duration)
                          THEN longDur.duration ELSE afterShort
         IN  IF shortDur.err
             THEN maxPolicyWindow(rules, i + 1, invalid("shortWindow"))
             ELSE IF longDur.err
                  THEN maxPolicyWindow(rules, i + 1, invalid("longWindow"))
                  ELSE maxPolicyWindow(rules, i + 1,
                                       [acc EXCEPT !.max = afterLong])

CompliancePath == [field |-> "complianceWindow", rule |-> -1]

\* validateComplianceWindow: the ValidationErrors of one SLO (Path and the
\* kind of Message)
validateComplianceWindow(sloSpec) ==
    LET complianceDur == ParseDurationChars(sloSpec.ComplianceWindow)
        looped == maxPolicyWindow(sloSpec.Rules, 1,
                                  [max |-> complianceDur.duration,
                                   errors |-> <<>>])
    IN  IF complianceDur.err
        THEN <<[Path |-> CompliancePath, Message |-> "invalid duration"]>>
        ELSE IF Int64Less(complianceDur.duration, looped.max)
             THEN looped.errors
                  \o <<[Path |-> CompliancePath,
                        Message |-> "must be >= max burn policy window"]>>
             ELSE looped.errors

\* the window strings of the drawn SLOs, as their characters: 5m, 300s, 1h,
\* 6h, 1d, 106752d and 1x
ValidatedWindows ==
    {<<"5", "m">>, <<"3", "0", "0", "s">>, <<"1", "h">>, <<"6", "h">>,
     <<"1", "d">>, <<"1", "0", "6", "7", "5", "2", "d">>, <<"1", "x">>}

ValidatedSLOs ==
    [ComplianceWindow : ValidatedWindows,
     Rules : UNION {[1 .. k -> [ShortWindow : ValidatedWindows,
                                LongWindow : ValidatedWindows]] :
                        k \in 0 .. MaxRules}]

ValidateInit ==
    /\ fnArg \in [fn : {"validateComplianceWindow"}, slo : ValidatedSLOs]
    /\ fnRes = NoCall

CallValidateComplianceWindow ==
    /\ fnArg.fn = "validateComplianceWindow"
    /\ fnRes = NoCall
    /\ fnRes' = [errors |-> validateComplianceWindow(fnArg.slo)]
    /\ UNCHANGED fnArg
    /\ FnFrame

InitValidate ==
    PolicyIdle /\ AdapterInit /\ CacheInit /\ SchedInit /\ ValidateInit

NextValidate == CallValidateComplianceWindow

SpecValidate == InitValidate /\ [][NextValidate]_vars

----------------------------------------------------------------------------
(* internal/scheduler: LoadSLOs on drawn directories *)

\* a file with an id that parses and validates, parses and fails the
\* validator, or does not parse
DrawnFiles ==
    {File(id, TRUE, TRUE) : id \in SLOIds}
    \cup {File(id, TRUE, FALSE) : id \in SLOIds}
    \cup {File(id, FALSE, FALSE) : id \in SLOIds}

DrawnDirectories == UNION {[1 .. k -> DrawnFiles] : k \in 0 .. MaxFiles}

LoadInit ==
    /\ fnArg \in [fn : {"LoadSLOs"}, dir : DrawnDirectories]
    /\ fnRes = NoCall

\* a caller runs LoadSLOs on a scheduler configured with the drawn directory
LoadDrawn ==
    /\ fnArg.fn = "LoadSLOs"
    /\ loadRet = "none"
    /\ LoadSLOsOn(fnArg.dir)

InitLoad == PolicyIdle /\ AdapterInit /\ CacheInit /\ SchedInit /\ LoadInit

NextLoad ==
    \/ SetAuditStorage
    \/ LoadDrawn

SpecLoad == InitLoad /\ [][NextLoad]_vars

----------------------------------------------------------------------------
(* internal/scheduler: what evaluateOnce computes, on drawn SLOs and drawn
   counts and timestamps *)

\* the counts and ages a window's queries return: no traffic, all requests
\* failed or all good; each query without a timestamp, or with a newest
\* sample as old as the limit of 60s, or one second older
StampedData ==
    [err : {FALSE}, good : {0, 1}, total : {0, 1},
     goodAge : {NoTS, 60, 61}, totalAge : {NoTS, 60, 61}]

FlagRules ==
    [Name : {"rule"}, ShortWindow : {"5m"}, LongWindow : Windows,
     Threshold : {Rat(1, 1)}, Action : {DecisionALLOW, DecisionBLOCK}]

FlagSLOs ==
    [ID : {"a"}, Objective : {Rat(9, 10)}, ComplianceWindow : Windows,
     EvaluationInterval : {"30s"}, StalenessLimit : {"", "60s"},
     GoodQuery : {"good"}, TotalQuery : {"total"},
     Rules : UNION {[1 .. k -> FlagRules] : k \in 0 .. MaxRules}]

FlagsInit ==
    /\ fnArg \in [fn : {"evaluateOnce"}, slo : FlagSLOs,
                  data : [Windows -> StampedData]]
    /\ fnRes = NoCall

\* evaluateOnce up to the cache write: Evaluate, Engine.Evaluate, and the
\* EvaluationState built from them
CallEvaluateOnce ==
    /\ fnArg.fn = "evaluateOnce"
    /\ fnRes = NoCall
    /\ LET evalResult ==
               Evaluate(fnArg.slo, 0, DrawnAnswers(fnArg.slo, fnArg.data, 0))
       IN  fnRes' = NewEvaluationState(
                        fnArg.slo,
                        ParseDuration(fnArg.slo.EvaluationInterval),
                        0, evalResult)
    /\ UNCHANGED fnArg
    /\ FnFrame

InitFlags == PolicyIdle /\ AdapterInit /\ CacheInit /\ SchedInit /\ FlagsInit

NextFlags == CallEvaluateOnce

SpecFlags == InitFlags /\ [][NextFlags]_vars

----------------------------------------------------------------------------
(* The scheduler stopped and started again: one SLO, Start and Stop called *)
(* in any order, the goroutines scheduled fairly.                          *)

\* the evaluation tasks a behaviour can create
TaskIds == (1 .. MaxRestarts) \X (1 .. 1)

StartAgain == StartCallBelow(MaxRestarts)

\* a step of evaluateLoop other than taking a tick: every call it makes
\* (evaluator, cache, audit sink) returns
TaskStep(k) ==
    /\ k \in Tasks
    /\ \/ TaskStart(k)
       \/ EvaluatorReturns(k)
       \/ CacheSet(k)
       \/ StoreEvaluation(k)
       \/ UpdateLatestState(k)

\* the select of evaluateLoop takes the case <-ctx.Done()
TaskSeesDone(k) == k \in Tasks /\ TaskCancelled(k)

InitStop == PolicyIdle /\ AdapterInit /\ CacheInit /\ SchedInit /\ FnIdle

NextStop ==
    \/ Tick
    \/ SetAuditStorage
    \/ LoadSLOsSingle
    \/ StartAgain
    \/ StartSpawn
    \/ StartReturn
    \/ StartCallerResumes
    \/ StopCall
    \/ StopWait
    \/ TaskStarts
    \/ TaskTicks
    \/ TaskCancels
    \/ EvaluatorReturn
    \/ CacheSets
    \/ StoreEvaluations
    \/ UpdateLatestStates

\* TaskStep(k) is enabled exactly here: each of its steps is guarded by the
\* task's position only
TaskCanStep(k) ==
    /\ k \in Tasks
    /\ workers[k].pc \in {"spawned", "evaluating", "set", "audit", "latest"}

\* weak fairness of TaskStep(k), with its enabling condition written out
TaskRuns(k) == []<>(~TaskCanStep(k)) \/ []<><<TaskStep(k)>>_vars

\* the Go scheduler runs every runnable goroutine; a select with several
\* ready cases picks one at random, so a case that is ready again and again
\* is taken
FairStop ==
    /\ WF_vars(StartSpawn)
    /\ WF_vars(StartReturn)
    /\ WF_vars(StopWait)
    /\ \A k \in TaskIds : TaskRuns(k) /\ SF_vars(TaskSeesDone(k))

SpecStop == InitStop /\ [][NextStop]_vars /\ FairStop

----------------------------------------------------------------------------
(* The StateCache with callers that write to the entries they were handed *)

\* a caller sets a field of an entry object it holds a pointer to
WriteEntry(a) == heap' = [heap EXCEPT ![a].UpdatedAt = MaxClock]

\* the holder of a snapshot writes to the entry the snapshot has for k:
\* snapshot[k].UpdatedAt = t
SnapshotEntryWrite(k) ==
    /\ snap # NoAddr
    /\ k \in DOMAIN maps[snap]
    /\ WriteEntry(maps[snap][k])
    /\ snapSeen' = [snapSeen EXCEPT ![k].UpdatedAt = MaxClock]
    /\ UNCHANGED <<cacheStates, maps, snap, got>>

\* a caller writes to the entry the cache holds for k, whose pointer Get
\* returned: state.UpdatedAt = t
CacheEntryWrite(k) ==
    /\ k \in DOMAIN maps[cacheStates]
    /\ WriteEntry(maps[cacheStates][k])
    /\ UNCHANGED <<cacheStates, maps, snap, snapSeen, got>>

CacheSnapshotEntryWrite == \E k \in SLOIds : SnapshotEntryWrite(k) /\ CacheFrame
CacheHeldEntryWrite == \E k \in SLOIds : CacheEntryWrite(k) /\ CacheFrame

InitEntries == PolicyIdle /\ AdapterInit /\ CacheInit /\ SchedInit /\ FnIdle

NextEntries ==
    \/ CacheSetCall
    \/ CacheGetAllCall
    \/ CacheDeleteCall
    \/ CacheSnapshotDrop
    \/ CacheSnapshotEntryWrite
    \/ CacheHeldEntryWrite

SpecEntries == InitEntries /\ [][NextEntries]_vars

----------------------------------------------------------------------------
(* Properties of the policy engine *)

\* the severity order ALLOW < WARN < BLOCK
Severity(d) ==
    CASE d = DecisionALLOW -> 0
      [] d = DecisionWARN -> 1
      [] d = DecisionBLOCK -> 2

SetMax(S) == CHOOSE x \in S : \A y \in S : y <= x

\* the trigger condition as stated: both windows in the map, both >= threshold
TriggersAsStated(rule, evalResult) ==
    /\ rule.ShortWindow \in DOMAIN evalResult.BurnRates
    /\ rule.LongWindow \in DOMAIN evalResult.BurnRates
    /\ RatGE(evalResult.BurnRates[rule.ShortWindow].BurnRate, rule.Threshold)
    /\ RatGE(evalResult.BurnRates[rule.LongWindow].BurnRate, rule.Threshold)

\* the severities that enter the decision
StatedSeverities(rules, evalResult) ==
    {Severity(DecisionALLOW)}
    \cup (IF evalResult.IsStale THEN {Severity(DecisionWARN)} ELSE {})
    \cup (IF evalResult.InsufficientData THEN {Severity(DecisionWARN)} ELSE {})
    \cup {Severity(rules[i].Action) :
            i \in {j \in 1 .. Len(rules) : TriggersAsStated(rules[j], evalResult)}}

RemoveAt(seq, i) == SubSeq(seq, 1, i - 1) \o SubSeq(seq, i + 1, Len(seq))

\* C1: the decision Engine.Evaluate returns is the maximum, in the order
\* ALLOW < WARN < BLOCK, of WARN if isStale, WARN if insufficientData and the
\* action of every triggered rule (ALLOW when none applies).
C1_DecisionIsSeverityMax ==
    polResult # NoResult =>
        Severity(polResult.Decision) = SetMax(StatedSeverities(polRules, polEval))

\* C1 witness: stale data, a BLOCK rule triggered and then a WARN rule
\* triggered, and the decision is BLOCK
C1_Witness ==
    /\ polResult # NoResult
    /\ polEval.IsStale
    /\ Len(polRules) = 2
    /\ polRules[1].Action = DecisionBLOCK /\ polResult.RuleResults[1].Triggered
    /\ polRules[2].Action = DecisionWARN /\ polResult.RuleResults[2].Triggered
    /\ polResult.Decision = DecisionBLOCK

\* C4: a rule is reported triggered iff both of its windows are in burnRates
\* and both burn rates are >= its threshold; a rule that is not triggered
\* leaves the decision as it is without that rule.
C4_TriggerIffBothWindowsAtThreshold ==
    polResult # NoResult =>
        \A i \in 1 .. Len(polRules) :
            /\ polResult.RuleResults[i].Triggered
                  <=> TriggersAsStated(polRules[i], polEval)
            /\ ~polResult.RuleResults[i].Triggered =>
                  PolicyEvaluate(RemoveAt(polRules, i), polEval).Decision
                      = polResult.Decision

\* C4 witness: a rule whose two burn rates equal its threshold triggers, and a
\* rule with a window missing from the map does not
C4_Witness ==
    /\ polResult # NoResult
    /\ Len(polRules) = 2
    /\ polRules[1].ShortWindow \in DOMAIN polEval.BurnRates
    /\ polRules[1].LongWindow \in DOMAIN polEval.BurnRates
    /\ polEval.BurnRates[polRules[1].ShortWindow].BurnRate = polRules[1].Threshold
    /\ polEval.BurnRates[polRules[1].LongWindow].BurnRate = polRules[1].Threshold
    /\ polResult.RuleResults[1].Triggered
    /\ polRules[2].LongWindow \notin DOMAIN polEval.BurnRates
    /\ ~polResult.RuleResults[2].Triggered
    /\ polResult.RuleResults[2].Reason = ReasonMissing(polRules[2].Name)

----------------------------------------------------------------------------
(* Properties of the Prometheus adapter *)

\* C5: in every reachable state at most MaxConcurrency outbound requests are
\* in flight.
C5_InFlightAtMostMaxConcurrency == InFlight <= MaxConcurrency

\* C5 witness: MaxConcurrency requests in flight while another call waits for
\* a slot
C5_Witness ==
    /\ InFlight = MaxConcurrency
    /\ \E c \in Callers : adCall[c].pc = "acquire"

\* C6: a call that holds a slot makes at most RetryCount+1 attempts, each
\* attempt after the first following a failed one; it returns ok on its first
\* successful attempt and an error only after RetryCount+1 failed attempts.
C6_RetryAtMostRetryCountTimes ==
    \A c \in Callers :
        /\ adCall[c].made <= RetryCount + 1
        /\ adCall[c].pc = "inflight" => adCall[c].failed = adCall[c].made - 1
        /\ adCall[c].ret = "ok" =>
              adCall[c].made >= 1 /\ adCall[c].failed = adCall[c].made - 1
        /\ adCall[c].ret = "err" =>
              adCall[c].made = RetryCount + 1 /\ adCall[c].failed = RetryCount + 1
        /\ (adCall[c].pc = "loop" /\ adCall[c].made < RetryCount + 1) =>
              ENABLED ExecuteQuery(c) /\ ~ENABLED QueryWindowFails(c)

\* C6 witness: one call succeeded on its last permitted attempt, another
\* returned an error after all of them failed
C6_Witness ==
    \E c1, c2 \in Callers :
        /\ adCall[c1].ret = "ok" /\ adCall[c1].made = RetryCount + 1
        /\ adCall[c2].ret = "err" /\ adCall[c2].lastErr = "http_status"

\* what a caller of the cache reads through the cache's current map
CacheView == Deref(maps, heap, cacheStates)

\* C8: while a caller holds the map GetAll returned, that map has the keys and
\* the entries it had when GetAll returned, changed only by the holder's own
\* additions and removals of keys, whatever Set, Delete and Clear did to the
\* cache since; and the holder's additions and removals of keys leave the
\* cache's own map as it was.
C8_SnapshotIsPointInTimeCopy ==
    /\ [](snap # NoAddr => Deref(maps, heap, snap) = snapSeen)
    /\ [][(CacheSnapshotAddKey \/ CacheSnapshotRemoveKey) => CacheView' = CacheView]_vars

\* a snapshot taken with both ids is held while the cache has since lost one id
\* and holds a different entry for the other
C8_Witness ==
    /\ snap # NoAddr
    /\ DOMAIN snapSeen = SLOIds
    /\ DOMAIN CacheView = {"a"}
    /\ CacheView["a"] # snapSeen["a"]
    /\ Deref(maps, heap, snap) = snapSeen

\* the worker k is at s.evaluator.Evaluate, which fails, and this step is the
\* one in which k takes the error
EvaluatorFailsIn(k) ==
    /\ workers[k].pc = "evaluating"
    /\ EvaluatorEvaluate(SLOCatalog[workers[k].slo], workers[k].now, backend).err
    /\ workers'[k].pc # "evaluating"

C3_BackendDownGivesWarn ==
    (workers[Handler].pc = "respond" /\ workers[Handler].err /\ got.found)
        => DecisionResponse(workers[Handler], got).decision = DecisionWARN

\* the entry e under id has all its fields from one evaluation of that SLO
Untorn(id, e) ==
    \E now \in 0 .. MaxClock - 1 : \E be \in Backends :
        LET r == EvaluatorEvaluate(SLOCatalog[id], now, be)
        IN  /\ ~r.err
            /\ e = NewEvaluationState(
                       SLOCatalog[id],
                       ParseDuration(SLOCatalog[id].EvaluationInterval), now, r)

\* C7: every entry the cache would hand to GetAll, and the entry Get has
\* handed to the handler, has its EvaluationResult, GateResult, updatedAt
\* and ttl from one evaluation, the GateResult being the policy's result for
\* that EvaluationResult.
C7_EntriesReadAreUntorn ==
    /\ \A id \in DOMAIN CacheView : Untorn(id, CacheView[id])
    /\ got.found => Untorn(got.id, got.state)

\* Get has returned an entry to the handler of a forceFresh request while the
\* evaluateLoop of the same SLO is about to store a different evaluation
C7_Witness ==
    /\ got.found
    /\ workers[Handler].force
    /\ \E k \in Tasks :
          /\ workers[k].slo = got.id
          /\ workers[k].pc = "set"
          /\ workers[k].res # got.state.EvalResult

\* C9: once a Stop call that cancelled a context has returned, no
\* evaluateLoop of that context is left: all of them have returned.
C9_StopReturnsAfterAllTasksReturned ==
    \A ctx \in stopped : \A k \in Tasks : k[1] # ctx

\* C10: a Start call that returns nil found the scheduler not running and
\* with SLOs, and made one evaluateLoop for each of them and no other; a
\* Start call that returns an error found the scheduler running or without
\* SLOs, and made no evaluateLoop.
C10_StartGuardAndOneTaskPerSLO ==
    /\ starter.pc = "returned" =>
          IF starter.ret = "ok"
          THEN /\ ~starter.sawRunning
               /\ Len(starter.todo) > 0
               /\ starter.created =
                     {<<(<<starter.ctx, i>>), starter.todo[i]>> :
                         i \in 1 .. Len(starter.todo)}
          ELSE /\ starter.sawRunning \/ Len(starter.todo) = 0
               /\ starter.created = {}
    /\ \A c \in starter.created :
          c[1] \in DOMAIN workers => workers[c[1]].slo = c[2]
    /\ \A k \in Tasks :
          (starter.pc # "idle" /\ k[1] = starter.ctx) =>
              \E c \in starter.created : c[1] = k

\* a first Start has made one evaluateLoop for each of two SLOs, and a second
\* Start, the scheduler running, has returned an error
C10_Witness ==
    /\ starter.pc = "returned"
    /\ starter.ret = "error"
    /\ starter.sawRunning
    /\ Len(slos) = 2
    /\ Cardinality(Tasks) = 2

\* C11: when EvaluateNow has returned to the handler, it has returned an
\* error if the evaluation failed, and it has returned ok only if the
\* evaluation succeeded and the cache holds the entry of the SLO with the
\* SLO's evaluationInterval as ttl; when it has returned not-found, it has
\* evaluated nothing.
C11_EvaluateNowReportsOutcome ==
    LET h == workers[Handler]
    IN  (h.force /\ h.pc \in {"get", "respond500"}) =>
            /\ h.err => h.ret = "error"
            /\ h.ret = "ok" =>
                  /\ ~h.err
                  /\ h.slo \in DOMAIN CacheView
                  /\ CacheView[h.slo].TTL =
                        ParseDuration(SLOCatalog[h.slo].EvaluationInterval)
            /\ h.ret = "notfound" => ~h.err

\* a file of the directory fails to parse or to validate
SomeFileFails(dir) ==
    \/ \E i \in 1 .. Len(dir) : ~dir[i].parses \/ ~dir[i].valid
    \/ \E i, j \in 1 .. Len(dir) : i # j /\ dir[i].id = dir[j].id

\* the ids of the documents of the directory, in file order
AllIds(dir) == [i \in 1 .. Len(dir) |-> dir[i].id]

\* C12: a LoadSLOs call on a directory of which a file fails to parse or to
\* validate returns an error, leaves the admitted set as it was and sends
\* nothing to the audit sink; a LoadSLOs call that returns ok has admitted all
\* the files of the directory, none of which fails; and Start on a scheduler
\* that has admitted nothing returns an error and starts nothing.
C12_AdmissionIsAllOrNothing ==
    [][/\ \A dir \in Directories :
             LoadSLOsOn(dir) =>
                 /\ SomeFileFails(dir) =>
                       /\ loadRet' = "error"
                       /\ slos' = slos
                       /\ auditLog' = auditLog
                 /\ loadRet' = "ok" =>
                       /\ ~SomeFileFails(dir)
                       /\ slos' = AllIds(dir)
       /\ (StartCall /\ slos = <<>>) =>
             /\ starter'.ret = "error"
             /\ ~running'
             /\ workers' = workers /\ wg' = wg]_vars

\* with the audit sink set, LoadSLOs has returned an error, nothing is
\* admitted or sent to the sink, and Start has refused to start
C12_Witness ==
    /\ loadRet = "error"
    /\ slos = <<>>
    /\ auditOn
    /\ auditLog = {}
    /\ starter.pc = "returned"
    /\ starter.ret = "error"
    /\ ~running

\* C13: the ready signal is true exactly when SLOs are admitted and the cache
\* holds at least one entry.
C13_ReadyIffAdmittedAndCached ==
    handleReady.Ready <=> (Len(slos) > 0 /\ Size >= 1)

\* the audit sink has received the call of the method for the SLO
Audited(log, method, id) == \E c \in log : c.method = method /\ c.id = id

\* C14: within one evaluation, by a tick or by EvaluateNow, the evaluator's
\* result comes first, then the cache write of the entry built from that
\* result and the policy's result for it with the SLO's evaluationInterval
\* as ttl, then StoreEvaluation, then UpdateLatestState; and only these
\* steps send an evaluation to the audit sink.
C14_EvaluationStepsInOrder ==
    [][/\ \A k \in DOMAIN workers \cap DOMAIN workers' :
             LET w == workers[k]
                 a == workers[k].pc
                 b == workers'[k].pc
             IN  /\ (b = "set" /\ a # b) =>
                       /\ a = "evaluating"
                       /\ workers'[k].res =
                             EvaluatorEvaluate(SLOCatalog[w.slo], w.now, backend)
                       /\ ~workers'[k].res.err
                 /\ (b = "audit" /\ a # b) =>
                       /\ a = "set"
                       /\ w.slo \in DOMAIN CacheView'
                       /\ CacheView'[w.slo] =
                             [EvalResult |-> w.res,
                              GateResult |->
                                  PolicyEvaluate(SLOCatalog[w.slo].Rules, w.res),
                              UpdatedAt |-> w.now,
                              TTL |-> ParseDuration(
                                          SLOCatalog[w.slo].EvaluationInterval)]
                 /\ (b = "latest" /\ a # b) =>
                       /\ a = "audit"
                       /\ Audited(auditLog', "StoreEvaluation", w.slo)
                 /\ (a = "latest" /\ a # b) =>
                       Audited(auditLog', "UpdateLatestState", w.slo)
       /\ (\E c \in auditLog' \ auditLog : c.method # "StoreSLODefinition") =>
             \E k \in DOMAIN workers :
                 /\ workers[k].pc \in {"audit", "latest"}
                 /\ workers'[k].pc # workers[k].pc]_vars

\* an evaluateLoop, on a tick after its first evaluation, has written its
\* entry and called StoreEvaluation, and is about to call UpdateLatestState
C14_Witness ==
    \E k \in Tasks :
        /\ workers[k].pc = "latest"
        /\ workers[k].now > 0
        /\ workers[k].slo \in DOMAIN CacheView
        /\ CacheView[workers[k].slo].UpdatedAt = workers[k].now
        /\ Audited(auditLog, "StoreEvaluation", workers[k].slo)

\* C15: with the audit sink failing, LoadSLOs on a directory whose files all
\* load and validate still returns ok and admits them all; the step in which
\* a worker calls StoreEvaluation leaves the cache as it is and takes the
\* worker to UpdateLatestState, whether the call failed or not; the step in
\* which it calls UpdateLatestState leaves the cache as it is and ends the
\* evaluation, after which an evaluateLoop is at its select again; and every
\* SLO for which the sink has failed an evaluation call has its cache entry.
C15_AuditFailuresNotPropagated ==
    /\ [][/\ \A dir \in Directories :
                (LoadSLOsOn(dir) /\ auditOn /\ ~sinkOk
                    /\ Len(dir) > 0 /\ ~SomeFileFails(dir)) =>
                    /\ loadRet' = "ok"
                    /\ slos' = AllIds(dir)
          /\ \A k \in DOMAIN workers :
                /\ (workers[k].pc = "audit" /\ auditOn
                        /\ workers'[k].pc # "audit") =>
                      /\ workers'[k].pc = "latest"
                      /\ CacheView' = CacheView
                /\ (workers[k].pc = "latest" /\ workers'[k].pc # "latest") =>
                      /\ workers'[k].pc = IF k = Handler THEN "get" ELSE "select"
                      /\ CacheView' = CacheView
                      /\ Audited(auditLog', "UpdateLatestState", workers[k].slo)]_vars
    /\ [](\A c \in auditLog :
             (~c.ok /\ c.method # "StoreSLODefinition") => c.id \in DOMAIN CacheView)

\* the sink has failed StoreSLODefinition and StoreEvaluation for an SLO,
\* which is admitted, has the entry of its first evaluation in the cache and
\* has had UpdateLatestState called, and its evaluateLoop is in a later tick
C15_Witness ==
    \E k \in Tasks :
        LET id == workers[k].slo
        IN  /\ loadRet = "ok"
            /\ slos = <<id>>
            /\ \E c \in auditLog :
                  c.method = "StoreSLODefinition" /\ c.id = id /\ ~c.ok
            /\ \E c \in auditLog :
                  c.method = "StoreEvaluation" /\ c.id = id /\ ~c.ok
            /\ Audited(auditLog, "UpdateLatestState", id)
            /\ workers[k].pc = "evaluating"
            /\ workers[k].now > 0
            /\ id \in DOMAIN CacheView
            /\ CacheView[id].UpdatedAt = 0

----------------------------------------------------------------------------
(* Properties of the evaluator *)

\* Evaluate was called on the drawn SLO and succeeded
EvaluateSucceeded ==
    /\ fnArg.fn = "Evaluate"
    /\ fnRes # NoCall
    /\ ~fnRes.err

\* C16: on every successful Evaluate, the keys of the result's BurnRates are
\* the compliance window and the short and long window of every burn rule,
\* each entry's Window is its key, and evaluateRule on a rule of the same SLO
\* never reports a missing window
C16_BurnRateKeysAreTheSLOWindows ==
    EvaluateSucceeded =>
        LET sloSpec == fnArg.slo
            stated == {sloSpec.ComplianceWindow}
                      \cup UNION {{sloSpec.Rules[i].ShortWindow,
                                   sloSpec.Rules[i].LongWindow} :
                                      i \in 1 .. Len(sloSpec.Rules)}
        IN  /\ DOMAIN fnRes.BurnRates = stated
            /\ \A w \in DOMAIN fnRes.BurnRates : fnRes.BurnRates[w].Window = w
            /\ \A i \in 1 .. Len(sloSpec.Rules) :
                   evaluateRule(sloSpec.Rules[i], fnRes).Reason
                       # ReasonMissing(sloSpec.Rules[i].Name)

\* C16 witness: a successful evaluation of an SLO whose rules name a window
\* other than the compliance window, as a long window only
C16_Witness ==
    /\ EvaluateSucceeded
    /\ Len(fnArg.slo.Rules) = 2
    /\ \A i \in 1 .. 2 :
           fnArg.slo.Rules[i].ShortWindow = fnArg.slo.ComplianceWindow
    /\ fnArg.slo.Rules[2].LongWindow # fnArg.slo.ComplianceWindow
    /\ Cardinality(DOMAIN fnRes.BurnRates) = 2

\* ComputeSLI has returned on the drawn good and total
SLIComputed ==
    /\ fnArg.fn = "ComputeSLI"
    /\ fnRes # NoCall

\* C17: with total = 0 ComputeSLI returns InsufficientData, Value 0 and
\* ErrorRate 0 whatever good is; with total > 0 it returns no InsufficientData,
\* Value = min(good, total) / total, which lies in [0, 1], and
\* ErrorRate = 1 - Value
C17_ComputeSLIValueAndErrorRate ==
    SLIComputed =>
        LET good == fnArg.good
            total == fnArg.total
            least == IF good <= total THEN good ELSE total
            v == fnRes.Value
            e == fnRes.ErrorRate
        IN  /\ total = 0 =>
                   /\ fnRes.InsufficientData
                   /\ v.n = 0
                   /\ e.n = 0
            /\ total > 0 =>
                   /\ ~fnRes.InsufficientData
                   /\ v.n * total = least * v.d
                   /\ 0 <= v.n /\ v.n <= v.d
                   /\ e.n * v.d + v.n * e.d = e.d * v.d

\* C17 witness: ComputeSLI has returned Value 1 for a good above a positive
\* total
C17_Witness ==
    /\ SLIComputed
    /\ fnArg.total > 0
    /\ fnArg.good > fnArg.total
    /\ fnRes.Value = Rat(1, 1)
    /\ fnRes.ErrorRate = Rat(0, 1)

\* clamp(x, 0, 1)
ClampUnit(x) ==
    IF ~RatGE(x, Rat(0, 1)) THEN Rat(0, 1)
    ELSE IF ~RatGE(Rat(1, 1), x) THEN Rat(1, 1) ELSE x

\* the error rate of good out of total, as stated: 0 without traffic, else
\* 1 - min(good, total) / total
StatedErrorRate(good, total) ==
    IF total = 0
    THEN Rat(0, 1)
    ELSE RatSub(Rat(1, 1), Rat(IF good <= total THEN good ELSE total, total))

\* what Evaluate returns on the drawn SLO when window w returns the counts d
EvaluateWithWindow(w, d) ==
    Evaluate(fnArg.slo, 0,
             DrawnAnswers(fnArg.slo, [fnArg.data EXCEPT ![w] = d], 0))

\* C18: in every EvaluationResult BudgetRemaining lies in [0, 1], equals
\* clamp(1 - errorRate_c / (1 - objective), 0, 1) for the error rate of the
\* compliance window, and stays the same whatever another window returns
C18_BudgetRemainingFromComplianceWindowOnly ==
    EvaluateSucceeded =>
        LET sloSpec == fnArg.slo
            c == fnArg.data[sloSpec.ComplianceWindow]
            b == fnRes.BudgetRemaining
        IN  /\ RatGE(b, Rat(0, 1))
            /\ RatGE(Rat(1, 1), b)
            /\ b = ClampUnit(RatSub(Rat(1, 1),
                                    RatDiv(StatedErrorRate(c.good, c.total),
                                           RatSub(Rat(1, 1),
                                                  sloSpec.Objective))))
            /\ \A w \in Windows \ {sloSpec.ComplianceWindow} :
                   \A d \in WindowData :
                       ~d.err => EvaluateWithWindow(w, d).BudgetRemaining = b

\* C18 witness: a budget strictly between 0 and 1 in a result that has a
\* burn-rate window with another error rate than the compliance window's
C18_Witness ==
    /\ EvaluateSucceeded
    /\ ~RatGE(Rat(0, 1), fnRes.BudgetRemaining)
    /\ ~RatGE(fnRes.BudgetRemaining, Rat(1, 1))
    /\ \E w \in DOMAIN fnRes.BurnRates :
           /\ w # fnArg.slo.ComplianceWindow
           /\ fnRes.BurnRates[w].ErrorRate # fnRes.SLI.ErrorRate

----------------------------------------------------------------------------
(* Properties of ParseDuration *)

\* ParseDuration has returned on the drawn string
DurationParsed ==
    /\ fnArg.fn = "ParseDuration"
    /\ fnRes # NoCall

\* the string matches ^[0-9]+(s|m|h|d)$
MatchesStated(chars) ==
    \E k \in 1 .. Len(chars) - 1 :
        /\ Len(chars) = k + 1
        /\ \A i \in 1 .. k : chars[i] \in Digits
        /\ chars[k + 1] \in DurationUnits

\* the seconds of a unit as stated, as factors: 86400 = 864 * 100
StatedUnitSeconds(unit) ==
    CASE unit = "s" -> <<1>>
      [] unit = "m" -> <<60>>
      [] unit = "h" -> <<3600>>
      [] unit = "d" -> <<864, 100>>

\* n times the unit in nanoseconds, exactly
StatedDuration(chars) ==
    MulAll(MulAll(DecimalValue(SubSeq(chars, 1, Len(chars) - 1), WideLimbs),
                  StatedUnitSeconds(chars[Len(chars)])),
           <<1000, 1000, 1000>>)

\* C19: ParseDuration accepts exactly the strings matching ^[0-9]+(s|m|h|d)$
\* and returns an error for every other string; for an accepted string with
\* number n it returns n times the unit (s = 1, m = 60, h = 3600, d = 86400
\* seconds), for every n
C19_ParseDurationAcceptsPatternAndScales ==
    DurationParsed =>
        /\ ~fnRes.err <=> MatchesStated(fnArg.chars)
        /\ ~fnRes.err =>
               /\ FitsInt64(StatedDuration(fnArg.chars))
               /\ fnRes.duration
                      = SubSeq(StatedDuration(fnArg.chars), 1, WordLimbs)

\* on the numbers whose product with the unit an int64 of nanoseconds holds,
\* ParseDuration accepts the pattern and scales as stated (it holds)
ParseDurationRightWithinInt64 ==
    DurationParsed =>
        /\ ~fnRes.err => MatchesStated(fnArg.chars)
        /\ (/\ MatchesStated(fnArg.chars)
            /\ FitsInt64(StatedDuration(fnArg.chars))) =>
               /\ ~fnRes.err
               /\ fnRes.duration
                      = SubSeq(StatedDuration(fnArg.chars), 1, WordLimbs)

----------------------------------------------------------------------------
(* Properties of the validator *)

\* validateComplianceWindow has returned on the drawn SLO
ComplianceValidated ==
    /\ fnArg.fn = "validateComplianceWindow"
    /\ fnRes # NoCall

\* the windows of the burn rules of an SLO
PolicyWindows(sloSpec) ==
    UNION {{sloSpec.Rules[i].ShortWindow, sloSpec.Rules[i].LongWindow} :
              i \in 1 .. Len(sloSpec.Rules)}

\* every duration of the SLO parses
AllDurationsParse(sloSpec) ==
    \A w \in {sloSpec.ComplianceWindow} \cup PolicyWindows(sloSpec) :
        ~ParseDurationChars(w).err

\* the compliance window is strictly smaller than the largest window of the
\* burn rules, by what the strings say
ComplianceBelowLargest(sloSpec) ==
    \E w \in PolicyWindows(sloSpec) :
        LimbsLess(StatedDuration(sloSpec.ComplianceWindow),
                  StatedDuration(w), WideLimbs)

\* the validator reports an error on spec.complianceWindow
ComplianceErrorReported ==
    \E i \in 1 .. Len(fnRes.errors) : fnRes.errors[i].Path = CompliancePath

\* C20: for every SLO whose durations all parse, the validator reports a
\* complianceWindow error if and only if the compliance window is strictly
\* smaller than the largest short or long window of the burn rules
C20_ComplianceErrorIffBelowLargestWindow ==
    (ComplianceValidated /\ AllDurationsParse(fnArg.slo)) =>
        (ComplianceErrorReported <=> ComplianceBelowLargest(fnArg.slo))

\* on SLOs whose windows an int64 of nanoseconds holds, the validator
\* reports the error exactly when the compliance window is below the largest
\* window (it holds)
ComplianceErrorRightWithinInt64 ==
    (/\ ComplianceValidated
     /\ AllDurationsParse(fnArg.slo)
     /\ \A w \in {fnArg.slo.ComplianceWindow} \cup PolicyWindows(fnArg.slo) :
            FitsInt64(StatedDuration(w))) =>
        (ComplianceErrorReported <=> ComplianceBelowLargest(fnArg.slo))

----------------------------------------------------------------------------
(* Properties of admission *)

\* the pairs of loaded files of the directory that carry one id
DuplicatedPairs(dir) ==
    {p \in (1 .. Len(dir)) \X (1 .. Len(dir)) :
        /\ p[1] < p[2]
        /\ dir[p[1]].parses /\ dir[p[2]].parses
        /\ dir[p[1]].id = dir[p[2]].id}

\* the duplicate-ID errors validation returns on the directory
DuplicateErrors(dir) ==
    {e \in ValidateDirectory(dir) : e.kind = "duplicate ID"}

\* C21: when two or more loaded files carry the same metadata.id, validation
\* returns at least one error for that id, the errors name both files of
\* every duplicated pair, and LoadSLOs admits nothing; the ids of an admitted
\* set are pairwise distinct
C21_DuplicateIdsAreReportedAndRejected ==
    (fnArg.fn = "LoadSLOs" /\ loadRet # "none") =>
        LET dir == fnArg.dir
            named == UNION {{e.file, e.other} : e \in DuplicateErrors(dir)}
        IN  /\ \A p \in DuplicatedPairs(dir) :
                   /\ \E e \in DuplicateErrors(dir) :
                          dir[e.file].id = dir[p[1]].id
                   /\ p[1] \in named /\ p[2] \in named
                   /\ loadRet = "error"
                   /\ slos = <<>>
            /\ \A i, j \in 1 .. Len(slos) : i # j => slos[i] # slos[j]

\* C21 witness: LoadSLOs has refused a directory of three files that parse
\* and validate one by one, two of which carry one id
C21_Witness ==
    /\ fnArg.fn = "LoadSLOs"
    /\ loadRet = "error"
    /\ Len(fnArg.dir) = 3
    /\ \A i \in 1 .. 3 : fnArg.dir[i].parses /\ fnArg.dir[i].valid
    /\ fnArg.dir[1].id = fnArg.dir[3].id
    /\ fnArg.dir[2].id # fnArg.dir[1].id
    /\ slos = <<>>

----------------------------------------------------------------------------
(* Properties of the gating modifiers *)

\* evaluateOnce has computed the entry for the drawn SLO
EvaluatedOnce ==
    /\ fnArg.fn = "evaluateOnce"
    /\ fnRes # NoCall

\* the windows an SLO requires: its compliance window and the short and long
\* window of each of its rules
RequiredWindows(sloSpec) ==
    {sloSpec.ComplianceWindow}
    \cup UNION {{sloSpec.Rules[i].ShortWindow, sloSpec.Rules[i].LongWindow} :
                   i \in 1 .. Len(sloSpec.Rules)}

\* the age of the folded timestamp of a window: of the later of its two
\* timestamps when both exist, else of the one that exists, else none
FoldedAge(d) ==
    IF d.goodAge # NoTS /\ d.totalAge # NoTS
    THEN (IF d.goodAge < d.totalAge THEN d.goodAge ELSE d.totalAge)
    ELSE IF d.goodAge # NoTS
         THEN d.goodAge
         ELSE IF d.totalAge # NoTS THEN d.totalAge ELSE NoTS

\* a staleness limit is configured and some required window has a folded
\* timestamp older than it
SomeWindowStale ==
    /\ fnArg.slo.StalenessLimit # ""
    /\ \E w \in RequiredWindows(fnArg.slo) :
           /\ FoldedAge(fnArg.data[w]) # NoTS
           /\ FoldedAge(fnArg.data[w]) > ParseDuration(fnArg.slo.StalenessLimit)

\* some required window has total = 0
SomeWindowWithoutTraffic ==
    \E w \in RequiredWindows(fnArg.slo) : fnArg.data[w].total = 0

\* C22: in every successful evaluation in which a required window has
\* total = 0 or a data timestamp older than the configured staleness limit,
\* the decision of the entry written to the cache is WARN or BLOCK, never
\* ALLOW; and the GateResult mirrors the flags of the EvaluationResult
C22_NeverAllowOnUncertainty ==
    EvaluatedOnce =>
        /\ (SomeWindowWithoutTraffic \/ SomeWindowStale) =>
               fnRes.GateResult.Decision \in {DecisionWARN, DecisionBLOCK}
        /\ fnRes.GateResult.HasNoTraffic = fnRes.EvalResult.InsufficientData
        /\ fnRes.GateResult.IsStale = fnRes.EvalResult.IsStale

\* C22 witness: stale data and a triggered rule whose action is ALLOW, and
\* the decision is WARN
C22_Witness ==
    /\ EvaluatedOnce
    /\ SomeWindowStale
    /\ ~SomeWindowWithoutTraffic
    /\ \E i \in 1 .. Len(fnArg.slo.Rules) :
           /\ fnArg.slo.Rules[i].Action = DecisionALLOW
           /\ fnRes.GateResult.RuleResults[i].Triggered
    /\ \A i \in 1 .. Len(fnArg.slo.Rules) :
           fnArg.slo.Rules[i].Action = DecisionALLOW
    /\ fnRes.GateResult.Decision = DecisionWARN

C24_InsufficientIffSomeWindowWithoutTraffic ==
    EvaluatedOnce =>
        (fnRes.EvalResult.InsufficientData <=> SomeWindowWithoutTraffic)

\* C24 witness: the compliance window has traffic, the window of a rule has
\* none, and the result has InsufficientData
C24_Witness ==
    /\ EvaluatedOnce
    /\ fnArg.data[fnArg.slo.ComplianceWindow].total > 0
    /\ \E i \in 1 .. Len(fnArg.slo.Rules) :
           fnArg.data[fnArg.slo.Rules[i].LongWindow].total = 0
    /\ fnRes.EvalResult.InsufficientData

----------------------------------------------------------------------------
(* Properties of shutdown *)

\* the evaluateLoop goroutine k is at a suspension point of evaluateOnce: the
\* evaluator's adapter calls, the cache write, or a call of the audit sink
AtSuspensionPoint(k) ==
    \/ workers[k].pc \in {"evaluating", "set", "latest"}
    \/ workers[k].pc = "audit" /\ auditOn

\* C25: once Stop has raised the cancellation signal of a task's context, the
\* task starts no adapter call, no cache write and no audit-sink call, also
\* when it was in the middle of an evaluation or had a tick pending
C25_NoSuspensionPointPassedAfterCancel ==
    [][\A k \in Tasks :
          (k[1] \in cancelled /\ AtSuspensionPoint(k)) =>
              (k \in DOMAIN workers' /\ workers'[k] = workers[k])]_vars

----------------------------------------------------------------------------
(* Properties of restarting *)

\* every evaluation task of a cancelled context eventually returns
CancelledTasksReturn ==
    \A k \in TaskIds :
        (k \in Tasks /\ k[1] \in cancelled) ~> (k \notin Tasks)

\* C26: after Stop has raised the cancellation signal, every evaluation
\* task of the cancelled context eventually returns, and the Stop call
\* eventually returns: its s.wg.Wait() returns only once the counter is zero
C26_ShutdownTerminates ==
    /\ CancelledTasksReturn
    /\ (stopper.pc = "waiting") ~> (wg = 0)

----------------------------------------------------------------------------
(* Properties of the adapter's semaphore *)

\* the QueryWindow calls that have acquired a slot and not yet returned
SlotHolders == {c \in Callers : adCall[c].pc \in {"loop", "inflight"}}

\* the slots held are those of the calls between Acquire and return; with no
\* call in progress all of them are free
SlotsMatchHolders ==
    /\ semCur = Cardinality(SlotHolders)
    /\ (\A c \in Callers : adCall[c].pc \in {"idle", "returned"}) => semCur = 0

\* a return of QueryWindow gives back exactly the slot the call acquired,
\* and none when its Acquire timed out
ReturnReleasesOwnSlot ==
    \A c \in Callers :
        (adCall[c].pc # "returned" /\ adCall'[c].pc = "returned") =>
            IF adCall'[c].ret = "acquire_err"
            THEN c \notin SlotHolders /\ semCur' = semCur
            ELSE c \in SlotHolders /\ semCur' = semCur - 1

\* C27: the adapter never leaks a semaphore slot: the slots held equal the
\* calls that have acquired and not yet returned, every return after an
\* Acquire (success or retries exhausted) releases exactly one slot, a call
\* whose Acquire timed out releases nothing, and with no call in progress all
\* slots are free
C27_NoSemaphoreSlotLeaked == []SlotsMatchHolders /\ [][ReturnReleasesOwnSlot]_vars

\* C27 witness: one call has returned with its retries exhausted, another
\* with its Acquire timed out, a third with success, and every slot is free
C27_Witness ==
    /\ \E c \in Callers : adCall[c].ret = "err"
    /\ \E c \in Callers : adCall[c].ret = "acquire_err"
    /\ \E c \in Callers : adCall[c].ret = "ok"
    /\ SlotHolders = {}
    /\ semCur = 0

----------------------------------------------------------------------------
(* Properties of the entries of a snapshot *)

\* C28: a snapshot is a deep copy: a write to the fields of an entry object
\* obtained from a GetAll snapshot leaves what Get and GetAll on the cache
\* read as it was, and a write to an entry the cache holds leaves an earlier
\* snapshot as the holder saw it
C28_SnapshotEntriesAreCopies ==
    /\ [][CacheSnapshotEntryWrite => CacheView' = CacheView]_vars
    /\ [][(CacheHeldEntryWrite /\ snap # NoAddr) =>
             Deref(maps', heap', snap') = snapSeen]_vars

----------------------------------------------------------------------------
(* Properties of the periodic tasks *)

\* C29: in every reachable state, whatever the order of the Start and Stop
\* calls, at most one periodic evaluation task is alive for each SLO id
C29_OnePeriodicTaskPerSLO ==
    \A k1, k2 \in Tasks : k1 # k2 => workers[k1].slo # workers[k2].slo

----------------------------------------------------------------------------
(* Properties of the order of the cache writes *)

\* C30: for each SLO id, whatever the interleaving of the periodic task and
\* the callers of EvaluateNow, a cache write never replaces the entry of that
\* id by one with an earlier updatedAt or an earlier EvaluationResult
\* timestamp
C30_EntryOnlyReplacedByNewer ==
    [][\A id \in DOMAIN CacheView \cap DOMAIN CacheView' :
          /\ CacheView'[id].UpdatedAt >= CacheView[id].UpdatedAt
          /\ CacheView'[id].EvalResult.Timestamp >=
                CacheView[id].EvalResult.Timestamp]_vars

============================================================================
